---- MODULE Spec2Model ----
(***************************************************************************)
(* Model of the renaming tool: the TS-number normalizer                    *)
(* (dynamic_models.py), the file renamer rename_files and the batch        *)
(* drivers process_multiple_models / main (main_processor.py).             *)
(*                                                                         *)
(* Strings are sequences of atoms.  An atom is a piece of text that the    *)
(* code never looks inside: a word such as "TC" or "deny", one digit, or   *)
(* one of the two texts the code searches for, "#" and ".json".            *)
(* str.split, str.replace, str.endswith and the f-string formatting are    *)
(* computed on these sequences the way Python computes them on characters. *)
(***************************************************************************)
EXTENDS Integers, Sequences, FiniteSets, TLC

\* ------------------------------------------------------------------------
\* Bounds
\* ------------------------------------------------------------------------
MaxDigits == 4        \* longest raw TS number drawn as input
MaxSuffixLen == 2     \* longest suffix token (in atoms) given to the mapper
MaxFiles == 2         \* most directory entries of one source directory
MaxModels == 2        \* most models of one batch
MaxBatchFiles == 1    \* most directory entries per model in a batch
MaxFolders == 2       \* most entries of the directory searched by discovery
MaxRuns == 2          \* most runs of rename_files on the same tree
MaxGenFiles == 2      \* most files under the directory a generator walks
MaxRequests == 2      \* most requests of a validated collection
MaxExisting == 1      \* most files in dest_dir before rename_files is called

\* ------------------------------------------------------------------------
\* Python string primitives on atom sequences
\* ------------------------------------------------------------------------
HASH == "#"
JSON == ".json"

\* s.endswith(a) for a one-atom text a
EndsWith(s, a) == Len(s) > 0 /\ s[Len(s)] = a

\* s.replace(a, '') for a one-atom text a: every occurrence is removed
Replace(s, a) == SelectSeq(s, LAMBDA x : x # a)

RECURSIVE SplitFrom(_, _, _, _)
\* scanning s from position i with the current piece cur
SplitFrom(s, sep, i, cur) ==
    IF i > Len(s) THEN << cur >>
    ELSE IF s[i] = sep THEN << cur >> \o SplitFrom(s, sep, i + 1, << >>)
    ELSE SplitFrom(s, sep, i + 1, Append(cur, s[i]))

\* s.split(sep): always at least one piece, empty pieces are kept
Split(s, sep) == SplitFrom(s, sep, 1, << >>)

\* ------------------------------------------------------------------------
\* normalize_ts_number
\* ------------------------------------------------------------------------
DigitChars == << "0", "1", "2", "3", "4", "5", "6", "7", "8", "9" >>

DigitVal(c) == CHOOSE d \in 0..9 : DigitChars[d + 1] = c

RECURSIVE IntOf(_)
\* int(s) for a non-empty digit string s
IntOf(s) ==
    IF Len(s) = 0 THEN 0
    ELSE 10 * IntOf(SubSeq(s, 1, Len(s) - 1)) + DigitVal(s[Len(s)])

RECURSIVE Decimal(_)
\* the decimal digits of n >= 0, no leading zero
Decimal(n) ==
    IF n < 10 THEN << DigitChars[n + 1] >>
    ELSE Append(Decimal(n \div 10), DigitChars[(n % 10) + 1])

RECURSIVE ZeroPad(_, _)
ZeroPad(s, w) == IF Len(s) >= w THEN s ELSE ZeroPad(<< "0" >> \o s, w)

\* f"{n:0wd}"
FormatD(n, w) == ZeroPad(Decimal(n), w)

\* the variant that keeps an input already written with two or three digits
normalize_keep_width(ts_number_raw) ==
    LET ts_num == IntOf(ts_number_raw) IN
    IF Len(ts_number_raw) >= 2 THEN ts_number_raw
    ELSE IF 1 <= ts_num /\ ts_num <= 9 THEN FormatD(ts_num, 2)
    ELSE ts_number_raw

normalize_ts_number(ts_number_raw) ==
    LET ts_num == IntOf(ts_number_raw) IN
    IF 1 <= ts_num /\ ts_num <= 9 THEN FormatD(ts_num, 2)
    ELSE IF 10 <= ts_num /\ ts_num <= 99 THEN FormatD(ts_num, 2)
    ELSE IF 100 <= ts_num /\ ts_num <= 999 THEN FormatD(ts_num, 3)
    ELSE ts_number_raw

\* ------------------------------------------------------------------------
\* suffix mapping of rename_files
\* ------------------------------------------------------------------------
\* the dict of dicts, in insertion order: positive, negative, Exclusion
suffix_mapping ==
    << { << << "deny" >>, << "LR" >> >> },
       { << << "bypass" >>, << "NR" >> >> },
       { << << "market" >>, << "EX" >> >>, << << "date" >>, << "EX" >> >> } >>

InCategory(category, suffix) == \E e \in category : e[1] = suffix

Lookup(category, suffix) == (CHOOSE e \in category : e[1] = suffix)[2]

RECURSIVE MapFrom(_, _, _)
\* the for loop over suffix_mapping.values() from position i, with break
MapFrom(table, suffix, i) ==
    IF i > Len(table) THEN suffix
    ELSE IF InCategory(table[i], suffix) THEN Lookup(table[i], suffix)
    ELSE MapFrom(table, suffix, i + 1)

\* a table in which the date entry is missing
suffix_mapping_no_date ==
    << { << << "deny" >>, << "LR" >> >> },
       { << << "bypass" >>, << "NR" >> >> },
       { << << "market" >>, << "EX" >> >> } >>

MapSuffix_no_date(suffix) == MapFrom(suffix_mapping_no_date, suffix, 1)

MapSuffix(suffix) == MapFrom(suffix_mapping, suffix, 1)

\* ------------------------------------------------------------------------
\* State
\* ------------------------------------------------------------------------
VARIABLES
    pc,               \* position of the running code
    ts_number_raw,    \* normalize_ts_number: the argument
    ts_number,        \* normalize_ts_number: the returned string
    suffix,           \* suffix mapper: the token given
    mapped_hist,      \* suffix mapper: results of the successive applications
    driver,           \* who calls rename_files: "direct", "process_multiple_models", "main"
    models,           \* models_config: sequence of [edit_id, code, listing]
    mi,               \* index of the model being processed
    srcExists,        \* per model: os.path.exists(source_dir)
    src,              \* per model: names of the files in source_dir
    dstExists,        \* per model: dest_dir exists
    dst,              \* per model: files of dest_dir, each [name, from]
    json_files,       \* rename_files: the filtered directory listing
    fi,               \* rename_files: position of the for loop in json_files
    new_filename,     \* rename_files: name computed for the current file
    renamed_files,    \* rename_files: the result list
    ret,              \* rename_files: [kind |-> "none" | "None" | "list" | "raise", files]
    log,              \* printed diagnostics: << kind, model, file name >>
    successful_models,\* batch: entries appended on a non-empty result
    failed_models,    \* batch: entries appended on an empty result or an exception
    outcomes,         \* batch history: how each call of rename_files ended
    base_dir,         \* discover_ts_folders: the directory searched, as path components
    use_wgs_csbd_destination, \* discover_ts_folders: the destination flag
    folders,          \* the entries of base_dir: sequence of [name, regression, listing]
    ts_folders,       \* discover_ts_folders: the concatenated glob results
    di,               \* discover_ts_folders: position of the for loop in ts_folders
    discovered,       \* discover_ts_folders: the list named models in the code
    args,             \* main: the parsed command line
    root_exists,      \* main: the source root directory exists
    models_config,    \* main: what get_models_config returned
    exit_code,        \* main: the exit status, -1 while running
    runs,             \* number of the current run of rename_files on the same tree
    generate_postman, \* rename_files: the argument generate_postman
    not_json,         \* the source files whose text json.load cannot read
    postman,          \* the generator call at hand: [kind, item, file]
    collection,       \* validate_collection: what the collection file holds
    validation_result \* validate_collection: the returned dict

vars == << pc, ts_number_raw, ts_number, suffix, mapped_hist, driver, models, mi,
           srcExists, src, dstExists, dst, json_files, fi, new_filename,
           renamed_files, ret, log, successful_models, failed_models,
           outcomes, base_dir, use_wgs_csbd_destination, folders, ts_folders,
           di, discovered, args, root_exists, models_config, exit_code, runs,
           generate_postman, not_json, postman, collection, validation_result >>

discVars == << base_dir, use_wgs_csbd_destination, folders, ts_folders, di, discovered >>
mainVars == << args, root_exists, models_config, exit_code >>
normVars == << ts_number_raw, ts_number >>
mapVars == << suffix, mapped_hist >>
batchVars == << driver, models, mi, successful_models, failed_models, outcomes >>
fileVars == << srcExists, src, dstExists, dst >>
localVars == << json_files, fi, new_filename, renamed_files, ret >>
postVars == << generate_postman, not_json, postman, collection, validation_result >>

NoRet == [kind |-> "none", files |-> << >>]

\* no generator call has been made: nothing returned, no collection file
NoPostman == [kind |-> "none", item |-> << >>, file |-> "absent"]

\* validate_collection is not running
NoCollection == [kind |-> "none", keys |-> { }, item |-> -1, items |-> -1]
NoValidation == [valid |-> FALSE, errors |-> << >>, warnings |-> << >>, stats |-> << >>]

\* ------------------------------------------------------------------------
\* Inputs
\* ------------------------------------------------------------------------
DigitSet == { DigitChars[i] : i \in 1..10 }

SeqsUpTo(S, lo, hi) == UNION { [1..k -> S] : k \in lo..hi }

RawInputs == SeqsUpTo(DigitSet, 1, MaxDigits)

SuffixAtoms == { "deny", "bypass", "market", "date", "LR", "NR", "EX", "Deny", "x" }

SuffixInputs == SeqsUpTo(SuffixAtoms, 0, MaxSuffixLen)

RECURSIVE Join(_, _)
\* sep.join(parts)
Join(parts, sep) ==
    IF Len(parts) = 0 THEN << >>
    ELSE IF Len(parts) = 1 THEN parts[1]
    ELSE parts[1] \o << sep >> \o Join(Tail(parts), sep)

\* a file name with the given '#'-separated pieces and the .json extension
JsonName(parts) == Join(parts, HASH) \o << JSON >>

E1 == << "rvn011" >>
E2 == << "rvn012" >>
C1c == << "00W11" >>
C2c == << "00W12" >>
TC == << "TC" >>
ID1 == << "01_11111" >>
ID2 == << "02_22222" >>

FileNames ==
    { JsonName(<< TC, ID1, << "deny" >> >>),
      JsonName(<< TC, ID1, << "market" >> >>),
      JsonName(<< TC, ID1, << "date" >> >>),
      JsonName(<< TC, ID2, << "bypass" >> >>),
      JsonName(<< TC, ID2, << "LR" >> >>),
      JsonName(<< TC, ID2, << >> >>),
      JsonName(<< TC, ID1, E1, << "deny" >> >>),
      JsonName(<< TC, ID1, E2, << "bypass" >> >>),
      JsonName(<< TC, ID1, E1, C1c, << "LR" >> >>),
      JsonName(<< TC, ID1, E2, C1c, << "LR" >> >>),
      JsonName(<< TC, ID1, E1, C2c, << "NR" >> >>),
      JsonName(<< << "readme" >> >>),
      JsonName(<< TC, ID1 >>),
      JsonName(<< TC, ID1, E1, C1c, << "x" >>, << "LR" >> >>),
      << "TC", HASH, "01_11111", HASH, "deny", ".txt" >> }

BatchFileNames ==
    { JsonName(<< TC, ID1, << "deny" >> >>),
      JsonName(<< TC, ID1, E2, C2c, << "LR" >> >>),
      JsonName(<< << "readme" >> >>) }

\* an edit id with a '#' in it, as --edit-id may give
E3 == << "rvn", HASH, "011" >>

Targets ==
    { [edit_id |-> E1, code |-> C1c, ts_number |-> << "0", "7" >>],
      [edit_id |-> E2, code |-> C2c, ts_number |-> << "1", "2" >>],
      [edit_id |-> E3, code |-> C1c, ts_number |-> << "1", "3" >>] }

\* the source files whose text may be something else than JSON
NotJsonNames == { JsonName(<< TC, ID1, << "deny" >> >>) }

\* directory listings: sequences without repetition of at most n names of S
Listings(S, n) ==
    { l \in SeqsUpTo(S, 0, n) : \A i, j \in 1..Len(l) : i # j => l[i] # l[j] }

Range(s) == { s[i] : i \in 1..Len(s) }

ModelRecords(S, n) ==
    { [edit_id |-> t.edit_id, code |-> t.code, ts_number |-> t.ts_number, listing |-> l] :
        t \in Targets, l \in Listings(S, n) }

\* ------------------------------------------------------------------------
\* rename_files
\* ------------------------------------------------------------------------
Cur == models[mi]
filename == json_files[fi]
parts == Split(filename, HASH)

\* the file's trailing piece with '.json' replaced by ''
SuffixOf(p) == Replace(p[Len(p)], JSON)

\* the f-string of the 3-part and 4-part branches
Compose(tc_part, tc_id_part, edit_id, code, mapped_suffix) ==
    tc_part \o << HASH >> \o tc_id_part \o << HASH >> \o edit_id \o << HASH >>
        \o code \o << HASH >> \o mapped_suffix \o << JSON >>

\* the 4-part branch written with the code found in the file name
NewName4_embedded(p, edit_id, code) ==
    Compose(p[1], p[2], p[3], code, MapSuffix(SuffixOf(p)))

NewName3(p, edit_id, code) ==
    Compose(p[1], p[2], edit_id, code, MapSuffix(SuffixOf(p)))

NewName4(p, edit_id, code) ==
    Compose(p[1], p[2], edit_id, code, MapSuffix(SuffixOf(p)))

\* the test of the 5-part branch, with only the edit code compared
Matches5_edit_only(p, edit_id, code) == p[3] = edit_id

Matches5(p, edit_id, code) == p[3] = edit_id /\ p[4] = code

\* the segment test without an upper limit on the 5-part branch
Accepted_any(f, edit_id, code) ==
    LET p == Split(f, HASH) IN
    \/ Len(p) = 3
    \/ Len(p) = 4
    \/ Len(p) >= 5 /\ Matches5(p, edit_id, code)

\* whether the loop body reaches a copy for the file name f
Accepted(f, edit_id, code) ==
    LET p == Split(f, HASH) IN
    \/ Len(p) = 3
    \/ Len(p) = 4
    \/ Len(p) = 5 /\ Matches5(p, edit_id, code)

\* the name the loop body gives the file name f
NewNameOf(f, edit_id, code) ==
    LET p == Split(f, HASH) IN
    IF Len(p) = 3 THEN NewName3(p, edit_id, code)
    ELSE IF Len(p) = 4 THEN NewName4(p, edit_id, code)
    ELSE f

\* the separator of the parts of a path
SEP == "/"

\* what shutil.copy2 leaves behind when it raises
PARTIAL == << "partial" >>

\* what stands for the content of an entry that is a directory, and for a
\* text that was in place before the call and is not JSON
DIRECTORY == << "directory" >>
NOT_JSON == << "not json" >>

\* os.path.isdir(os.path.join(dir, p)): p is written in the tree as a
\* directory, or the path of an entry goes through it
IsDirectory(dir, p) ==
    \E e \in dir :
        \/ e.name = p /\ e.from = DIRECTORY
        \/ Len(e.name) > Len(p) + 1 /\ SubSeq(e.name, 1, Len(p) + 1) = p \o << SEP >>

\* the path shutil.copy2 writes for the destination name: when the
\* destination is a directory, the file goes into it under the base name of
\* the source
CopyPath(dir, name, source) ==
    IF IsDirectory(dir, name) THEN name \o << SEP >> \o source ELSE name

\* open(dst, 'wb') of the copy raises: the path to write is a directory
CopyRefused(dir, name, source) == IsDirectory(dir, CopyPath(dir, name, source))

\* shutil.copy2(source, dest_dir/name) with the text `from` written: the
\* file at the path of the copy is made or replaced, every other entry stays
Put(dir, name, source, from) ==
    { e \in dir : e.name # CopyPath(dir, name, source) }
        \cup { [name |-> CopyPath(dir, name, source), from |-> from] }

Names(dir) == { e.name : e \in dir }

\* the files among the entries of a directory tree
TreeFiles(dir) == { e \in dir : e.from # DIRECTORY }

\* Two models may name the same directory, as the descriptors of a folder
\* that discovery returned twice do: what a call does to a directory is done
\* to it under every model that names it.
SameSource(m, k) ==
    \/ m = k
    \/ /\ "source_dir" \in DOMAIN models[m] \cap DOMAIN models[k]
       /\ models[m].source_dir = models[k].source_dir

SameDest(m, k) ==
    \/ m = k
    \/ /\ "dest_dir" \in DOMAIN models[m] \cap DOMAIN models[k]
       /\ models[m].dest_dir = models[k].dest_dir

\* the source directory of the call at hand now holds the names S
SrcWith(S) == [m \in DOMAIN src |-> IF SameSource(m, mi) THEN S ELSE src[m]]

\* the destination directory of the call at hand now holds the files S
DstWith(S) == [m \in DOMAIN dst |-> IF SameDest(m, mi) THEN S ELSE dst[m]]

\* the destination directory of the call at hand exists
DstMade == [m \in DOMAIN dstExists |-> SameDest(m, mi) \/ dstExists[m]]

\* os.listdir(source_dir) filtered by f.endswith('.json')
ListJson(m) ==
    SelectSeq(models[m].listing, LAMBDA f : f \in src[m] /\ EndsWith(f, JSON))

InLoop == pc = "rf_loop" /\ fi <= Len(json_files)

RfSourceMissing ==
    /\ pc = "rf_entry"
    /\ ~ srcExists[mi]
    /\ ret' = [kind |-> "None", files |-> << >>]
    /\ pc' = "rf_returned"
    /\ UNCHANGED << postVars, discVars, mainVars, runs, normVars, mapVars, batchVars, fileVars, json_files, fi,
                    new_filename, renamed_files, log >>

RfMakedirs ==
    /\ pc = "rf_entry"
    /\ srcExists[mi]
    /\ dstExists' = DstMade
    /\ pc' = "rf_listdir"
    /\ UNCHANGED << postVars, discVars, mainVars, runs, normVars, mapVars, batchVars, srcExists, src, dst,
                    localVars, log >>

\* os.makedirs raises (dest_dir cannot be created)
RfMakedirsFails ==
    /\ pc = "rf_entry"
    /\ srcExists[mi]
    /\ ~ dstExists[mi]
    /\ ret' = [kind |-> "raise", files |-> << >>]
    /\ pc' = "rf_raised"
    /\ UNCHANGED << postVars, discVars, mainVars, runs, normVars, mapVars, batchVars, fileVars, json_files, fi,
                    new_filename, renamed_files, log >>

RfListdir ==
    /\ pc = "rf_listdir"
    /\ json_files' = ListJson(mi)
    /\ fi' = 1
    /\ renamed_files' = << >>
    /\ pc' = "rf_loop"
    /\ UNCHANGED << postVars, discVars, mainVars, runs, normVars, mapVars, batchVars, fileVars, new_filename, ret, log >>

\* os.listdir raises (source_dir is not a readable directory)
RfListdirFails ==
    /\ pc = "rf_listdir"
    /\ ret' = [kind |-> "raise", files |-> << >>]
    /\ pc' = "rf_raised"
    /\ UNCHANGED << postVars, discVars, mainVars, runs, normVars, mapVars, batchVars, fileVars, json_files, fi,
                    new_filename, renamed_files, log >>

RfCopy ==
    /\ InLoop
    /\ Accepted(filename, Cur.edit_id, Cur.code)
    /\ new_filename' = NewNameOf(filename, Cur.edit_id, Cur.code)
    /\ ~ CopyRefused(dst[mi], new_filename', filename)
    /\ dst' = DstWith(Put(dst[mi], new_filename', filename, filename))
    /\ pc' = "rf_remove"
    /\ UNCHANGED << postVars, discVars, mainVars, runs, normVars, mapVars, batchVars, srcExists, src, dstExists,
                    json_files, fi, renamed_files, ret, log >>

\* shutil.copy2 raises: before the destination file is made (always so when
\* the path to write is a directory), with the file cut short, or with the
\* whole content in place when it is the copy of the metadata that is
\* refused; the file is at the path of the copy, inside the directory when
\* dest_dir holds one under the new name
RfCopyFails ==
    /\ InLoop
    /\ Accepted(filename, Cur.edit_id, Cur.code)
    /\ new_filename' = NewNameOf(filename, Cur.edit_id, Cur.code)
    /\ \E copied \in { "nothing", "part", "all" } :
          /\ CopyRefused(dst[mi], new_filename', filename) => copied = "nothing"
          /\ dst' = IF copied = "nothing" THEN dst
                    ELSE DstWith(Put(dst[mi], new_filename', filename,
                                     IF copied = "part" THEN PARTIAL ELSE filename))
    /\ log' = log \cup { << "error", mi, filename >> }
    /\ fi' = fi + 1
    /\ pc' = "rf_loop"
    /\ UNCHANGED << postVars, discVars, mainVars, runs, normVars, mapVars, batchVars, srcExists, src, dstExists,
                    json_files, renamed_files, ret >>

\* the move that leaves the original in place
RfRemove_keeps_original ==
    /\ pc = "rf_remove"
    /\ renamed_files' = Append(renamed_files, new_filename)
    /\ fi' = fi + 1
    /\ pc' = "rf_loop"
    /\ UNCHANGED << postVars, discVars, mainVars, runs, normVars, mapVars, batchVars, fileVars,
                    json_files, new_filename, ret, log >>

\* os.remove(source_path) and renamed_files.append(new_filename)
RfRemove ==
    /\ pc = "rf_remove"
    /\ src' = SrcWith(src[mi] \ { filename })
    /\ renamed_files' = Append(renamed_files, new_filename)
    /\ fi' = fi + 1
    /\ pc' = "rf_loop"
    /\ UNCHANGED << postVars, discVars, mainVars, runs, normVars, mapVars, batchVars, srcExists, dstExists, dst,
                    json_files, new_filename, ret, log >>

\* the append placed before os.remove, and os.remove raises
RfRemoveFails_appended ==
    /\ pc = "rf_remove"
    /\ renamed_files' = Append(renamed_files, new_filename)
    /\ log' = log \cup { << "error", mi, filename >> }
    /\ fi' = fi + 1
    /\ pc' = "rf_loop"
    /\ UNCHANGED << postVars, discVars, mainVars, runs, normVars, mapVars, batchVars, fileVars, json_files,
                    new_filename, ret >>

\* os.remove raises: the except clause is entered before the append
RfRemoveFails ==
    /\ pc = "rf_remove"
    /\ log' = log \cup { << "error", mi, filename >> }
    /\ fi' = fi + 1
    /\ pc' = "rf_loop"
    /\ UNCHANGED << postVars, discVars, mainVars, runs, normVars, mapVars, batchVars, fileVars, json_files,
                    new_filename, renamed_files, ret >>

RfSkipMismatch ==
    /\ InLoop
    /\ Len(parts) = 5
    /\ ~ Matches5(parts, Cur.edit_id, Cur.code)
    /\ log' = log \cup { << "mismatch", mi, filename >> }
    /\ fi' = fi + 1
    /\ UNCHANGED << postVars, pc, discVars, mainVars, runs, normVars, mapVars, batchVars, fileVars, json_files,
                    new_filename, renamed_files, ret >>

RfSkipUnrecognized ==
    /\ InLoop
    /\ Len(parts) \notin { 3, 4, 5 }
    /\ log' = log \cup { << "format", mi, filename >> }
    /\ fi' = fi + 1
    /\ UNCHANGED << postVars, pc, discVars, mainVars, runs, normVars, mapVars, batchVars, fileVars, json_files,
                    new_filename, renamed_files, ret >>

\* ------------------------------------------------------------------------
\* PostmanCollectionGenerator
\* ------------------------------------------------------------------------
\* rename_files makes the generator with source_dir = dest_dir, so the
\* directory the generator walks is dst[mi], present when dstExists[mi].  A
\* file of a subdirectory has its directory and SEP in front of its name.

\* Path.name: what follows the last separator
Basename(path) ==
    LET seps == { i \in 1..Len(path) : path[i] = SEP }
    IN  IF seps = { } THEN path
        ELSE SubSeq(path, (CHOOSE i \in seps : \A j \in seps : j <= i) + 1, Len(path))

\* Path.stem: the name without its last extension
PathStem(path) == SubSeq(Basename(path), 1, Len(Basename(path)) - 1)

\* _parse_filename without the test of the number of parts
parse_filename_any_parts(file) ==
    IF ~ EndsWith(file, JSON) THEN << >>
    ELSE LET name_without_ext == Replace(file, JSON)
             p == Split(name_without_ext, HASH)
         IN  IF (\E i \in 1..Len(name_without_ext) : name_without_ext[i] = HASH)
             THEN << [tc_prefix |-> p[1], tc_id |-> p[2], suffix |-> p[Len(p)],
                      original_filename |-> file] >>
             ELSE << >>

\* _parse_filename: << >> for None, else the dict as the one element
parse_filename(file) ==
    IF ~ EndsWith(file, JSON) THEN << >>
    ELSE LET name_without_ext == Replace(file, JSON)
             p == Split(name_without_ext, HASH)
         IN  IF (\E i \in 1..Len(name_without_ext) : name_without_ext[i] = HASH) /\ Len(p) = 5
             THEN << [tc_prefix |-> p[1], tc_id |-> p[2], edit_id |-> p[3],
                      eob_code |-> p[4], suffix |-> p[5], original_filename |-> file] >>
             ELSE << >>

\* method_map.get(suffix, 'POST')
method_map == [s \in { << "LR" >>, << "NR" >>, << "EX" >> } |-> "POST"]

MethodOf(s) == IF s \in DOMAIN method_map THEN method_map[s] ELSE "POST"

\* json.load of a file; except Exception gives {} for whatever cannot be
\* read: a file cut short, a text that is not JSON, a directory
EMPTY_OBJECT == << "{}" >>

JsonContent(e) ==
    IF e.from \in { PARTIAL, NOT_JSON, DIRECTORY } \/ e.from \in not_json
    THEN EMPTY_OBJECT
    ELSE e.from

\* the request made for the file e of the walk
PostmanRequest(e) ==
    [name |-> PathStem(e.name),
     method |-> MethodOf(parse_filename(Basename(e.name))[1].suffix),
     body |-> JsonContent(e)]

\* the entries of a set in one of their orders, each once: the order of
\* os.walk or of glob
Walks(dir) ==
    { w \in [1..Cardinality(dir) -> dir] : \A i, j \in 1..Cardinality(dir) : i # j => w[i] # w[j] }

\* the files of the walk whose name ends with '.json'
JsonFilesOf(w) == SelectSeq(w, LAMBDA e : EndsWith(Basename(e.name), JSON))

\* the loop over json_files: one request per file that _parse_filename accepts
ItemsOf(w) ==
    LET ok == SelectSeq(JsonFilesOf(w), LAMBDA e : parse_filename(Basename(e.name)) # << >>)
    IN  [i \in 1..Len(ok) |-> PostmanRequest(ok[i])]

\* __init__: output_dir.mkdir(exist_ok=True) succeeds
GenInit ==
    /\ pc = "g_init"
    /\ pc' = "g_entry"
    /\ UNCHANGED << postVars, discVars, mainVars, runs, normVars, mapVars, batchVars, fileVars,
                    localVars, log >>

\* __init__: output_dir.mkdir raises, as it does when the parent of
\* output_dir is missing
GenInitRaises ==
    /\ pc = "g_init"
    /\ postman' = [kind |-> "raise", item |-> << >>, file |-> "absent"]
    /\ pc' = "g_raised"
    /\ UNCHANGED << generate_postman, not_json, collection, validation_result, discVars, mainVars, runs,
                    normVars, mapVars, batchVars, fileVars, localVars, log >>

\* generate_postman_collection: source_dir does not exist
GenSourceMissing ==
    /\ pc = "g_entry"
    /\ ~ dstExists[mi]
    /\ postman' = [kind |-> "None", item |-> << >>, file |-> "absent"]
    /\ pc' = "g_returned"
    /\ UNCHANGED << generate_postman, not_json, collection, validation_result, discVars, mainVars, runs,
                    normVars, mapVars, batchVars, fileVars, localVars, log >>

\* no file under source_dir ends with '.json'
GenNoJson ==
    /\ pc = "g_entry"
    /\ dstExists[mi]
    /\ \A e \in TreeFiles(dst[mi]) : ~ EndsWith(Basename(e.name), JSON)
    /\ postman' = [kind |-> "None", item |-> << >>, file |-> "absent"]
    /\ pc' = "g_returned"
    /\ UNCHANGED << generate_postman, not_json, collection, validation_result, discVars, mainVars, runs,
                    normVars, mapVars, batchVars, fileVars, localVars, log >>

\* there are '.json' files and none gives a request: nothing is written
GenNoItem ==
    /\ pc = "g_entry"
    /\ dstExists[mi]
    /\ \E e \in TreeFiles(dst[mi]) : EndsWith(Basename(e.name), JSON)
    /\ \E w \in Walks(TreeFiles(dst[mi])) :
          /\ ItemsOf(w) = << >>
          /\ postman' = [kind |-> "None", item |-> << >>, file |-> "absent"]
    /\ pc' = "g_returned"
    /\ UNCHANGED << generate_postman, not_json, collection, validation_result, discVars, mainVars, runs,
                    normVars, mapVars, batchVars, fileVars, localVars, log >>

\* collection_dir.mkdir raises after the requests were built
GenMkdirRaises ==
    /\ pc = "g_entry"
    /\ dstExists[mi]
    /\ \E w \in Walks(TreeFiles(dst[mi])) :
          /\ ItemsOf(w) # << >>
          /\ postman' = [kind |-> "raise", item |-> ItemsOf(w), file |-> "absent"]
    /\ pc' = "g_raised"
    /\ UNCHANGED << generate_postman, not_json, collection, validation_result, discVars, mainVars, runs,
                    normVars, mapVars, batchVars, fileVars, localVars, log >>

\* the walk restricted to the names of this run's result
GenWritten_result_only ==
    /\ pc = "g_entry"
    /\ dstExists[mi]
    /\ \E w \in Walks({ e \in TreeFiles(dst[mi]) : \E k \in 1..Len(renamed_files) : renamed_files[k] = e.name }) :
          /\ ItemsOf(w) # << >>
          /\ postman' = [kind |-> "path", item |-> ItemsOf(w), file |-> "written"]
    /\ pc' = "g_returned"
    /\ UNCHANGED << generate_postman, not_json, collection, validation_result, discVars, mainVars, runs,
                    normVars, mapVars, batchVars, fileVars, localVars, log >>

\* the collection is written and its path returned
GenWritten ==
    /\ pc = "g_entry"
    /\ dstExists[mi]
    /\ \E w \in Walks(TreeFiles(dst[mi])) :
          /\ ItemsOf(w) # << >>
          /\ postman' = [kind |-> "path", item |-> ItemsOf(w), file |-> "written"]
    /\ pc' = "g_returned"
    /\ UNCHANGED << generate_postman, not_json, collection, validation_result, discVars, mainVars, runs,
                    normVars, mapVars, batchVars, fileVars, localVars, log >>

\* open or json.dump raises: the except clause returns None, and the file
\* may have been created already
GenWriteFails ==
    /\ pc = "g_entry"
    /\ dstExists[mi]
    /\ \E w \in Walks(TreeFiles(dst[mi])) :
          /\ ItemsOf(w) # << >>
          /\ \E created \in BOOLEAN :
                postman' = [kind |-> "None", item |-> ItemsOf(w),
                            file |-> IF created THEN "partial" ELSE "absent"]
    /\ pc' = "g_returned"
    /\ UNCHANGED << generate_postman, not_json, collection, validation_result, discVars, mainVars, runs,
                    normVars, mapVars, batchVars, fileVars, localVars, log >>

\* ------------------------------------------------------------------------
\* rename_files: the end of the function
\* ------------------------------------------------------------------------
\* if generate_postman and renamed_files
PostmanWanted == generate_postman /\ renamed_files # << >>

\* the loop is over and the generator is made for dest_dir
RfPostmanCall ==
    /\ pc = "rf_loop"
    /\ fi > Len(json_files)
    /\ PostmanWanted
    /\ pc' = "g_init"
    /\ UNCHANGED << postVars, discVars, mainVars, runs, normVars, mapVars, batchVars, fileVars,
                    localVars, log >>

\* the except clause of the Postman block raises the exception again
RfPostmanDone_reraises ==
    /\ pc \in { "g_returned", "g_raised" }
    /\ driver # "generator"
    /\ IF pc = "g_raised"
       THEN /\ ret' = [kind |-> "raise", files |-> << >>]
            /\ pc' = "rf_raised"
       ELSE /\ ret' = [kind |-> "list", files |-> renamed_files]
            /\ pc' = "rf_returned"
    /\ UNCHANGED << postVars, discVars, mainVars, runs, normVars, mapVars, batchVars, fileVars,
                    json_files, fi, new_filename, renamed_files, log >>

\* the path or None is reported, or except Exception prints the error;
\* then return renamed_files
RfPostmanDone ==
    /\ pc \in { "g_returned", "g_raised" }
    /\ driver # "generator"
    /\ ret' = [kind |-> "list", files |-> renamed_files]
    /\ pc' = "rf_returned"
    /\ UNCHANGED << postVars, discVars, mainVars, runs, normVars, mapVars, batchVars, fileVars,
                    json_files, fi, new_filename, renamed_files, log >>

\* return renamed_files without a generator call
RfFinish ==
    /\ pc = "rf_loop"
    /\ fi > Len(json_files)
    /\ ~ PostmanWanted
    /\ ret' = [kind |-> "list", files |-> renamed_files]
    /\ pc' = "rf_returned"
    /\ UNCHANGED << postVars, discVars, mainVars, runs, normVars, mapVars, batchVars, fileVars, json_files, fi,
                    new_filename, renamed_files, log >>

\* the process is killed in the middle of rename_files: between two
\* statements, inside shutil.copy2, which then leaves a cut-short file at the
\* path of the copy (under the new name, or inside the directory of that
\* name under the old one), or inside the json.dump of the Postman block,
\* which leaves a cut-short collection file; nothing is printed or returned,
\* and the original of a file in copy stays in place
RfCrash ==
    /\ \/ pc \in { "rf_entry", "rf_listdir", "rf_loop", "rf_remove" }
       \/ /\ pc \in { "g_init", "g_entry", "g_returned", "g_raised" }
          /\ driver # "generator"
    /\ pc' = "crashed"
    /\ \E in_write \in BOOLEAN :
          /\ dst' = IF /\ in_write
                       /\ InLoop
                       /\ Accepted(filename, Cur.edit_id, Cur.code)
                       /\ ~ CopyRefused(dst[mi], NewNameOf(filename, Cur.edit_id, Cur.code),
                                        filename)
                    THEN DstWith(Put(dst[mi], NewNameOf(filename, Cur.edit_id, Cur.code),
                                     filename, PARTIAL))
                    ELSE dst
          /\ postman' = IF /\ in_write
                           /\ pc = "g_entry"
                           /\ dstExists[mi]
                           /\ \E w \in Walks(TreeFiles(dst[mi])) : ItemsOf(w) # << >>
                        THEN [postman EXCEPT !.file = "partial"]
                        ELSE postman
    /\ UNCHANGED << generate_postman, not_json, collection, validation_result, discVars, mainVars, runs,
                    normVars, mapVars, batchVars, srcExists, src, dstExists, localVars, log >>

\* The steps of rename_files.  Of the generator's early returns the block
\* can meet the one without a request (a new name that has not five pieces);
\* dest_dir exists and holds a '.json' file whenever the block is entered.
RenameStep ==
    \/ RfSourceMissing \/ RfMakedirs \/ RfMakedirsFails \/ RfListdir
    \/ RfListdirFails \/ RfCopy \/ RfCopyFails \/ RfRemove \/ RfRemoveFails
    \/ RfSkipMismatch \/ RfSkipUnrecognized \/ RfFinish \/ RfCrash
    \/ RfPostmanCall \/ GenInit \/ GenInitRaises \/ GenNoItem \/ GenMkdirRaises
    \/ GenWritten \/ GenWriteFails \/ RfPostmanDone

\* rename_files is called again with the same arguments on the tree the
\* previous call left behind
Rerun ==
    /\ pc = "rf_returned"
    /\ driver = "direct"
    /\ runs < MaxRuns
    /\ runs' = runs + 1
    /\ outcomes' = Append(outcomes, ret.kind)
    /\ pc' = "rf_entry"
    /\ json_files' = << >>
    /\ fi' = 1
    /\ new_filename' = << >>
    /\ renamed_files' = << >>
    /\ ret' = NoRet
    /\ postman' = NoPostman
    /\ UNCHANGED << generate_postman, not_json, collection, validation_result, discVars, mainVars, normVars, mapVars, driver, models, mi,
                    successful_models, failed_models, fileVars, log >>

\* ------------------------------------------------------------------------
\* process_multiple_models and the model loop of main
\* ------------------------------------------------------------------------
\* The two loops have the same shape (main_processor.py 311-359 and 758-793):
\* rename_files is called inside try / except Exception.  The loop of main
\* keeps no list of failed models, and its entry of successful_models has
\* the number of the model in place of the list of files; driver tells the
\* two apart.
\* one iteration of the for loop starts: rename_files is called
BatchCall ==
    /\ pc = "b_loop"
    /\ mi <= Len(models)
    /\ pc' = "rf_entry"
    /\ json_files' = << >>
    /\ fi' = 1
    /\ new_filename' = << >>
    /\ renamed_files' = << >>
    /\ ret' = NoRet
    /\ postman' = NoPostman
    /\ UNCHANGED << generate_postman, not_json, collection, validation_result, discVars, mainVars, runs, normVars, mapVars, batchVars, fileVars, log >>

\* the dict process_multiple_models appends to successful_models
SuccessEntry(m, files) ==
    [edit_id |-> models[m].edit_id, code |-> models[m].code,
     files_count |-> Len(files), files |-> files]

\* model_config.get("ts_number", "??")
TsNumberOf(model_config) ==
    IF "ts_number" \in DOMAIN model_config THEN model_config.ts_number ELSE << "??" >>

\* the dict the loop of main appends to successful_models: the number of the
\* model and the count of the files, the files themselves are not kept
MainSuccessEntry(m, files) ==
    [ts_number |-> TsNumberOf(models[m]), edit_id |-> models[m].edit_id,
     code |-> models[m].code, files_count |-> Len(files)]

FailEntry(m, reason) ==
    [edit_id |-> models[m].edit_id, code |-> models[m].code, reason |-> reason]

\* the loop body without its else branch: an empty result is recorded nowhere
BatchRecord_empty_dropped ==
    /\ pc = "rf_returned"
    /\ driver \in { "process_multiple_models", "main" }
    /\ IF ret.kind = "list" /\ ret.files # << >>
       THEN /\ successful_models' =
                  Append(successful_models,
                         IF driver = "main"
                         THEN MainSuccessEntry(mi, ret.files)
                         ELSE SuccessEntry(mi, ret.files))
            /\ UNCHANGED failed_models
       ELSE UNCHANGED << successful_models, failed_models >>
    /\ outcomes' = Append(outcomes, ret.kind)
    /\ mi' = mi + 1
    /\ pc' = "b_loop"
    /\ UNCHANGED << postVars, discVars, mainVars, runs, normVars, mapVars, driver, models, fileVars, localVars, log >>

\* rename_files returned: the if renamed_files / else of the loop body
BatchRecord ==
    /\ pc = "rf_returned"
    /\ driver \in { "process_multiple_models", "main" }
    /\ IF ret.kind = "list" /\ ret.files # << >>
       THEN /\ successful_models' =
                  Append(successful_models,
                         IF driver = "main"
                         THEN MainSuccessEntry(mi, ret.files)
                         ELSE SuccessEntry(mi, ret.files))
            /\ UNCHANGED failed_models
       ELSE /\ failed_models' =
                  IF driver = "process_multiple_models"
                  THEN Append(failed_models, FailEntry(mi, "No files found or processed"))
                  ELSE failed_models
            /\ UNCHANGED successful_models
    /\ outcomes' = Append(outcomes, ret.kind)
    /\ mi' = mi + 1
    /\ pc' = "b_loop"
    /\ UNCHANGED << postVars, discVars, mainVars, runs, normVars, mapVars, driver, models, fileVars, localVars, log >>

\* the except clause without a handler for the exception: the batch ends
BatchCatch_propagates ==
    /\ pc = "rf_raised"
    /\ driver \in { "process_multiple_models", "main" }
    /\ pc' = "b_aborted"
    /\ UNCHANGED << postVars, discVars, mainVars, runs, normVars, mapVars, batchVars, fileVars, localVars, log >>

\* rename_files raised: except Exception of the loop body
BatchCatch ==
    /\ pc = "rf_raised"
    /\ driver \in { "process_multiple_models", "main" }
    /\ failed_models' =
          IF driver = "process_multiple_models"
          THEN Append(failed_models, FailEntry(mi, "exception"))
          ELSE failed_models
    /\ outcomes' = Append(outcomes, ret.kind)
    /\ mi' = mi + 1
    /\ pc' = "b_loop"
    /\ UNCHANGED << postVars, discVars, mainVars, runs, normVars, mapVars, driver, models, successful_models,
                    fileVars, localVars, log >>

\* the for loop is exhausted: summary and return
BatchEnd ==
    /\ pc = "b_loop"
    /\ mi > Len(models)
    /\ pc' = "b_done"
    /\ UNCHANGED << postVars, discVars, mainVars, runs, normVars, mapVars, batchVars, fileVars, localVars, log >>

\* ------------------------------------------------------------------------
\* discover_ts_folders: text primitives
\* ------------------------------------------------------------------------
\* A folder name is a sequence of atoms too: "_" is always an atom of its
\* own, a digit is an atom, and so is each word or descriptive text that the
\* patterns of the code name as a whole.  A token such as sur1 is the atoms
\* "sur", "1".
STAR == "*"                  \* the wildcard of a glob pattern
D13 == "(\\d{1,3})"          \* capturing group of one to three digits
DPLUS == "\\d+"              \* one or more digits, not captured
TOK == "([A-Za-z0-9]+)"      \* capturing group of letters and digits

\* the atoms with a character that is neither a letter nor a digit
NonAlnumAtoms ==
    { "_", " ", "#", ".json", ".txt", "/", "{}", "??", "01_11111", "02_22222",
      "renaming_jsons", "source_folder", " API Collection", "Sub Edit ",
      "Revenue code Services not payable on Facility claim", "Lab panel Model",
      "Recovery Room Reimbursement", "Laterality Policy", "-Disgnosis to Diagnosis",
      "-Disgnosis", "Device Dependent Procedures", "(R1)-1B", "revenue model",
      "Revenue Code to HCPCS Xwalk-1B", "Xwalk-1B", "Incidentcal Services Facility",
      "Revenue model CR v3", "HCPCS to Revenue Code Xwalk", "Multiple E&M Same day", "E&M",
      " api collection", "sub edit ", "revenue code services not payable on facility claim",
      "lab panel model", "recovery room reimbursement", "laterality policy",
      "-disgnosis to diagnosis", "-disgnosis", "device dependent procedures", "(r1)-1b",
      "revenue code to hcpcs xwalk-1b", "xwalk-1b", "incidentcal services facility",
      "revenue model cr v3", "hcpcs to revenue code xwalk", "multiple e&m same day", "e&m",
      STAR, D13, DPLUS, TOK }

\* the atoms of s that [A-Za-z0-9] takes: those made of letters and digits
\* only
AlnumAtoms(s) == { a \in Range(s) : a \notin NonAlnumAtoms }

\* str.lower() of an atom: the atoms with an upper-case letter
LowerTable ==
    { << " API Collection", " api collection" >>, << "(R1)-1B", "(r1)-1b" >>,
      << "-Disgnosis", "-disgnosis" >>,
      << "-Disgnosis to Diagnosis", "-disgnosis to diagnosis" >>, << "00W06", "00w06" >>,
      << "00W11", "00w11" >>, << "00W12", "00w12" >>, << "00W13", "00w13" >>,
      << "00W17", "00w17" >>, << "00W26", "00w26" >>, << "00W28", "00w28" >>,
      << "00W34", "00w34" >>, << "00W46", "00w46" >>, << "00W5", "00w5" >>, << "CR", "cr" >>,
      << "CSBD", "csbd" >>, << "Code", "code" >>, << "Collection", "collection" >>,
      << "Covid", "covid" >>, << "Deny", "deny" >>, << "Dependent", "dependent" >>,
      << "Device", "device" >>,
      << "Device Dependent Procedures", "device dependent procedures" >>,
      << "DeviceDependent", "devicedependent" >>, << "Diagnosis", "diagnosis" >>,
      << "E&M", "e&m" >>, << "EX", "ex" >>, << "Edit", "edit" >>, << "Facility", "facility" >>,
      << "GBDF", "gbdf" >>, << "HCPCS", "hcpcs" >>,
      << "HCPCS to Revenue Code Xwalk", "hcpcs to revenue code xwalk" >>,
      << "HCPCSRevenue", "hcpcsrevenue" >>, << "Incidental", "incidental" >>,
      << "Incidentcal", "incidentcal" >>,
      << "Incidentcal Services Facility", "incidentcal services facility" >>, << "LR", "lr" >>,
      << "Lab", "lab" >>, << "Lab panel Model", "lab panel model" >>,
      << "LabPanel", "labpanel" >>, << "Laterality", "laterality" >>,
      << "Laterality Policy", "laterality policy" >>, << "Model", "model" >>,
      << "Multiple", "multiple" >>, << "Multiple E&M Same day", "multiple e&m same day" >>,
      << "MultipleEM", "multipleem" >>, << "NR", "nr" >>, << "Other", "other" >>,
      << "Policy", "policy" >>, << "Procedures", "procedures" >>, << "REVENUE", "revenue" >>,
      << "RULEDEV", "ruledev" >>, << "RULEDEVI000003", "ruledevi000003" >>,
      << "RULEEM", "ruleem" >>, << "RULEEM000001", "ruleem000001" >>,
      << "RULEEM000046", "ruleem000046" >>, << "RULEINCI000001", "ruleinci000001" >>,
      << "RULELAB", "rulelab" >>, << "RULELAB0000009", "rulelab0000009" >>,
      << "RULELAT", "rulelat" >>, << "RULELATE000001", "rulelate000001" >>,
      << "RULERCE0000006", "rulerce0000006" >>, << "RULERCE000001", "rulerce000001" >>,
      << "RULERCE000005", "rulerce000005" >>, << "RULERECO000001", "rulereco000001" >>,
      << "RULERECO000003", "rulereco000003" >>, << "RULEREVE000001", "rulereve000001" >>,
      << "RULEREVE000002", "rulereve000002" >>, << "RULEREVE000003", "rulereve000003" >>,
      << "RULEREVE000004", "rulereve000004" >>, << "RULEREVE000005", "rulereve000005" >>,
      << "Recovery", "recovery" >>,
      << "Recovery Room Reimbursement", "recovery room reimbursement" >>,
      << "RecoveryRoom", "recoveryroom" >>, << "Reimbursement", "reimbursement" >>,
      << "Revenue", "revenue" >>,
      << "Revenue Code to HCPCS Xwalk-1B", "revenue code to hcpcs xwalk-1b" >>,
      << "Revenue code Services not payable on Facility claim", "revenue code services not payable on facility claim" >>,
      << "Revenue model CR v3", "revenue model cr v3" >>, << "RevenueHCPCS", "revenuehcpcs" >>,
      << "RevenueModel", "revenuemodel" >>, << "Room", "room" >>, << "Same", "same" >>,
      << "Services", "services" >>, << "Sub", "sub" >>, << "Sub Edit ", "sub edit " >>,
      << "SubEdit1", "subedit1" >>, << "SubEdit2", "subedit2" >>, << "SubEdit3", "subedit3" >>,
      << "SubEdit4", "subedit4" >>, << "SubEdit5", "subedit5" >>, << "TC", "tc" >>,
      << "TS", "ts" >>, << "W04", "w04" >>, << "WGS", "wgs" >>, << "Xwalk", "xwalk" >>,
      << "Xwalk-1B", "xwalk-1b" >> }

LowerAtom(a) ==
    IF \E e \in LowerTable : e[1] = a
    THEN (CHOOSE e \in LowerTable : e[1] = a)[2]
    ELSE a

\* s.lower()
Lower(s) == [i \in 1..Len(s) |-> LowerAtom(s[i])]

\* sub in s
Contains(s, sub) ==
    \E i \in 1..(Len(s) - Len(sub) + 1) : SubSeq(s, i, i + Len(sub) - 1) = sub

RECURSIVE StrReplaceFrom(_, _, _, _)
\* s.replace(old, new) scanning from position i: every occurrence, left to
\* right, without overlap
StrReplaceFrom(s, old, new, i) ==
    IF i > Len(s) THEN << >>
    ELSE IF i + Len(old) - 1 <= Len(s) /\ SubSeq(s, i, i + Len(old) - 1) = old
         THEN new \o StrReplaceFrom(s, old, new, i + Len(old))
         ELSE << s[i] >> \o StrReplaceFrom(s, old, new, i + 1)

StrReplace(s, old, new) == StrReplaceFrom(s, old, new, 1)

RECURSIVE FnMatchFrom(_, _, _, _)
\* fnmatch of the pattern p from element i against the name s from atom j
FnMatchFrom(p, s, i, j) ==
    IF i > Len(p) THEN j > Len(s)
    ELSE IF p[i] = STAR
         THEN \E k \in j..(Len(s) + 1) : FnMatchFrom(p, s, i + 1, k)
         ELSE j <= Len(s) /\ s[j] = p[i] /\ FnMatchFrom(p, s, i + 1, j + 1)

fnmatch(p, s) == FnMatchFrom(p, s, 1, 1)

RECURSIVE ClassRun(_, _, _)
\* how many atoms of the class stand at position j of s and after it
ClassRun(s, j, class) ==
    IF j <= Len(s) /\ s[j] \in class THEN 1 + ClassRun(s, j + 1, class) ELSE 0

\* the result None of re.match; a match is its tuple of groups, never empty
NoMatch == << >>

RECURSIVE ReMatchFrom(_, _, _, _, _)
\* re.match of the pattern p ending in $ from element i against s from atom
\* j.  Each class is followed by a text outside it, so the greedy run is the
\* only way to match.
ReMatchFrom(p, s, i, j, groups) ==
    IF i > Len(p) THEN (IF j > Len(s) THEN groups ELSE NoMatch)
    ELSE IF p[i] \in { D13, DPLUS, TOK }
         THEN LET class == IF p[i] = TOK THEN AlnumAtoms(s) ELSE { DigitChars[d] : d \in 1..10 }
                  n == ClassRun(s, j, class)
                  ok == IF p[i] = D13 THEN n \in 1..3 ELSE n >= 1
              IN  IF ~ok THEN NoMatch
                  ELSE ReMatchFrom(p, s, i + 1, j + n,
                                   IF p[i] = DPLUS THEN groups
                                   ELSE Append(groups, SubSeq(s, j, j + n - 1)))
         ELSE IF j <= Len(s) /\ s[j] = p[i]
              THEN ReMatchFrom(p, s, i + 1, j + 1, groups)
              ELSE NoMatch

re_match(p, s) == ReMatchFrom(p, s, 1, 1, << >>)

\* re.search(r'Sub Edit (\d+)', s): group 1 of the leftmost match, or NoMatch
SubEditSearch(s) ==
    LET hits == { i \in 1..Len(s) : s[i] = "Sub Edit " /\ ClassRun(s, i + 1, { DigitChars[d] : d \in 1..10 }) >= 1 }
    IN  IF hits = { } THEN NoMatch
        ELSE LET i == CHOOSE h \in hits : \A g \in hits : h <= g
             IN  SubSeq(s, i + 1, i + ClassRun(s, i + 1, { DigitChars[d] : d \in 1..10 }))

\* ------------------------------------------------------------------------
\* discover_ts_folders: the patterns
\* ------------------------------------------------------------------------
\* the descriptive texts of the folder names
REVENUE == << "REVENUE" >>
RevenueCodeServices == << "Revenue code Services not payable on Facility claim" >>
SubEdit == RevenueCodeServices \o << " ", "Sub Edit " >>
LabPanelModel == << "Lab panel Model" >>
RecoveryRoom == << "Recovery Room Reimbursement" >>
Covid == << "Covid" >>
LateralityPolicy == << "Laterality Policy" >>
Laterality == LateralityPolicy \o << "-Disgnosis to Diagnosis" >>
DeviceDependent == << "Device Dependent Procedures" >>
Device == DeviceDependent \o << "(R1)-1B" >>
RevenueModel == << "revenue model" >>
XwalkOneB == << "Revenue Code to HCPCS Xwalk-1B" >>
Incidentcal == << "Incidentcal Services Facility" >>
RevenueModelCR == << "Revenue model CR v3" >>
HcpcsXwalk == << "HCPCS to Revenue Code Xwalk" >>
MultipleEM == << "Multiple E&M Same day" >>
CovidGbdfMcr == << "Covid", "_", "gbdf", "_", "mcr" >>

\* "TS_*_<middle>_WGS_CSBD_*<ending>"
WgsGlob(middle, ending) ==
    << "TS", "_", STAR, "_" >> \o middle \o
    << "_", "WGS", "_", "CSBD", "_", STAR >> \o ending

SUR == << "_", "sur" >>
PAYLOADS_SUR == << "_", "payloads", "_", "sur" >>
AYLOADS_SUR == << "_", "ayloads", "_", "sur" >>
PAYLOADS_DIS == << "_", "payloads", "_", "dis" >>
DIS == << "_", "dis" >>

\* pattern1 .. pattern15 of the WGS_CSBD branch
WgsPatterns ==
    << WgsGlob(REVENUE, PAYLOADS_SUR),
       WgsGlob(REVENUE, AYLOADS_SUR),
       WgsGlob(REVENUE, SUR),
       WgsGlob(SubEdit \o << STAR >>, SUR),
       WgsGlob(LabPanelModel, SUR),
       WgsGlob(RecoveryRoom, SUR),
       WgsGlob(Covid, SUR),
       WgsGlob(Laterality, SUR),
       WgsGlob(Device, SUR),
       WgsGlob(RevenueModel, SUR),
       WgsGlob(XwalkOneB, SUR),
       WgsGlob(Incidentcal, SUR),
       WgsGlob(RevenueModelCR, SUR),
       WgsGlob(HcpcsXwalk, SUR),
       WgsGlob(MultipleEM, SUR) >>

\* pattern1 of the GBDF branch
GbdfPatterns ==
    << << "TS", "_", STAR, "_" >> \o CovidGbdfMcr \o << "_", STAR >> \o SUR >>

\* r'TS_(\d{1,3})_<middle>_WGS_CSBD_([A-Za-z0-9]+)_([A-Za-z0-9]+)_sur$'
WgsGrammar(middle) ==
    << "TS", "_", D13, "_" >> \o middle \o
    << "_", "WGS", "_", "CSBD", "_", TOK, "_", TOK >> \o SUR

\* r'TS_(\d{1,3})_Covid_gbdf_mcr_([A-Za-z0-9]+)_([A-Za-z0-9]+)_sur$'
GbdfGrammar ==
    << "TS", "_", D13, "_" >> \o CovidGbdfMcr \o << "_", TOK, "_", TOK >> \o SUR

\* the regular expressions in the order the code tries them
WgsGrammars ==
    << WgsGrammar(REVENUE),
       WgsGrammar(SubEdit \o << DPLUS >>),
       WgsGrammar(LabPanelModel),
       WgsGrammar(RecoveryRoom),
       WgsGrammar(Covid),
       WgsGrammar(Laterality),
       WgsGrammar(Device),
       WgsGrammar(RevenueModel),
       WgsGrammar(XwalkOneB),
       WgsGrammar(Incidentcal),
       WgsGrammar(RevenueModelCR),
       WgsGrammar(HcpcsXwalk),
       WgsGrammar(MultipleEM) >>

\* the GBDF expression is tried last and only under is_gbdf
Grammars(gbdf) == IF gbdf THEN Append(WgsGrammars, GbdfGrammar) ELSE WgsGrammars

RECURSIVE MatchFrom(_, _, _)
\* the chain "match = ...; if not match: match = ..." from grammar g on
MatchFrom(grammars, folder_name, g) ==
    IF g > Len(grammars) THEN NoMatch
    ELSE LET m == re_match(grammars[g], folder_name)
         IN  IF m # NoMatch THEN m ELSE MatchFrom(grammars, folder_name, g + 1)

\* ------------------------------------------------------------------------
\* discover_ts_folders: the loop body
\* ------------------------------------------------------------------------
\* "GBDF" in base_dir; a path is a sequence of components
IsGbdf(dir) == \E c \in 1..Len(dir) : Contains(dir[c], << "GBDF" >>)

\* the if / elif chain that rewrites the folder name
DestFolderName(folder_name) ==
    IF Contains(folder_name, PAYLOADS_SUR)
    THEN StrReplace(folder_name, PAYLOADS_SUR, PAYLOADS_DIS)
    ELSE IF Contains(folder_name, AYLOADS_SUR)
    THEN StrReplace(folder_name, AYLOADS_SUR, PAYLOADS_DIS)
    ELSE IF Contains(folder_name, SUR)
    THEN StrReplace(folder_name, SUR, DIS)
    ELSE folder_name

\* the destination chosen with the destination flag tested first
DestDir_flag_first(gbdf, flag, dest_folder_name) ==
    IF flag
    THEN << << "renaming_jsons" >>, << "WGS", "_", "CSBD" >>, dest_folder_name, << "regression" >> >>
    ELSE IF gbdf
    THEN << << "renaming_jsons" >>, << "GBDF" >>, dest_folder_name, << "regression" >> >>
    ELSE << << "renaming_jsons" >>, dest_folder_name, << "regression" >> >>

\* os.path.join("renaming_jsons", ..., dest_folder_name, "regression")
DestDir(gbdf, flag, dest_folder_name) ==
    IF gbdf
    THEN << << "renaming_jsons" >>, << "GBDF" >>, dest_folder_name, << "regression" >> >>
    ELSE IF flag
    THEN << << "renaming_jsons" >>, << "WGS", "_", "CSBD" >>, dest_folder_name, << "regression" >> >>
    ELSE << << "renaming_jsons" >>, dest_folder_name, << "regression" >> >>

\* f"ts_{ts_number}_collection"
generate_postman_collection_name(ts) == << "ts", "_" >> \o ts \o << "_", "collection" >>

\* f"TS_{ts_number}_<text>_Collection"
CollectionName(ts, text) == << "TS", "_" >> \o ts \o << "_" >> \o text \o << "_", "Collection" >>

\* f"<prefix>_{edit_id}_{code.lower()}.json"
PostmanFile(prefix, edit_id, code) ==
    prefix \o << "_" >> \o edit_id \o << "_" >> \o Lower(code) \o << JSON >>

WgsCsbdFile(kind, edit_id, code) ==
    PostmanFile(kind \o << "_", "wgs", "_", "csbd" >>, edit_id, code)

\* the if / elif chain that names the Postman collection and its file
PostmanNames(folder_name, ts, edit_id, code) ==
    IF Contains(folder_name, RevenueCodeServices)
    THEN [collection |->
              IF SubEditSearch(folder_name) # NoMatch
              THEN << "TS", "_" >> \o ts \o << "_" >> \o SubEdit \o SubEditSearch(folder_name)
                   \o << "_", "Collection" >>
              ELSE generate_postman_collection_name(ts),
          file |-> WgsCsbdFile(<< "revenue" >>, edit_id, code)]
    ELSE IF Contains(folder_name, LabPanelModel)
    THEN [collection |-> CollectionName(ts, LabPanelModel),
          file |-> WgsCsbdFile(<< "lab" >>, edit_id, code)]
    ELSE IF Contains(folder_name, RecoveryRoom)
    THEN [collection |-> CollectionName(ts, RecoveryRoom),
          file |-> WgsCsbdFile(<< "recovery" >>, edit_id, code)]
    ELSE IF Contains(folder_name, Covid)
    THEN [collection |-> CollectionName(ts, Covid),
          file |-> WgsCsbdFile(<< "covid" >>, edit_id, code)]
    ELSE IF Contains(folder_name, LateralityPolicy)
    THEN [collection |-> CollectionName(ts, << "Laterality" >>),
          file |-> WgsCsbdFile(<< "laterality" >>, edit_id, code)]
    ELSE IF Contains(folder_name, DeviceDependent)
    THEN [collection |-> CollectionName(ts, DeviceDependent),
          file |-> WgsCsbdFile(<< "device" >>, edit_id, code)]
    ELSE IF Contains(folder_name, RevenueModel)
    THEN [collection |-> CollectionName(ts, RevenueModel),
          file |-> WgsCsbdFile(<< "revenue" >>, edit_id, code)]
    ELSE IF Contains(folder_name, XwalkOneB)
    THEN [collection |-> CollectionName(ts, XwalkOneB),
          file |-> WgsCsbdFile(<< "revenue" >>, edit_id, code)]
    ELSE IF Contains(folder_name, Incidentcal)
    THEN [collection |-> CollectionName(ts, Incidentcal),
          file |-> WgsCsbdFile(<< "incidentcal" >>, edit_id, code)]
    ELSE IF Contains(folder_name, RevenueModelCR)
    THEN [collection |-> CollectionName(ts, RevenueModelCR),
          file |-> WgsCsbdFile(<< "revenue", "_", "model" >>, edit_id, code)]
    ELSE IF Contains(folder_name, HcpcsXwalk)
    THEN [collection |-> CollectionName(ts, HcpcsXwalk),
          file |-> WgsCsbdFile(<< "hcpcs" >>, edit_id, code)]
    ELSE IF Contains(folder_name, MultipleEM)
    THEN [collection |-> CollectionName(ts, MultipleEM),
          file |-> WgsCsbdFile(<< "multiple", "_", "em" >>, edit_id, code)]
    ELSE IF Contains(folder_name, CovidGbdfMcr)
    THEN [collection |-> CollectionName(ts, CovidGbdfMcr),
          file |-> PostmanFile(Lower(CovidGbdfMcr), edit_id, code)]
    ELSE [collection |-> generate_postman_collection_name(ts),
          file |-> WgsCsbdFile(<< "revenue" >>, edit_id, code)]

\* the dict built with the second and third groups exchanged
ModelConfig_groups_swapped(dir, flag, folder_name, m) ==
    LET ts == normalize_ts_number(m[1])
        names == PostmanNames(folder_name, ts, m[2], m[3])
    IN  [ts_number |-> ts,
         ts_number_raw |-> m[1],
         edit_id |-> m[3],
         code |-> m[2],
         source_dir |-> dir \o << folder_name, << "regression" >> >>,
         dest_dir |-> DestDir(IsGbdf(dir), flag, DestFolderName(folder_name)),
         postman_collection_name |-> names.collection,
         postman_file_name |-> names.file,
         folder_name |-> folder_name]

\* the dict model_config for a folder whose name gave the groups m
ModelConfig(dir, flag, folder_name, m) ==
    LET ts == normalize_ts_number(m[1])
        names == PostmanNames(folder_name, ts, m[2], m[3])
    IN  [ts_number |-> ts,
         ts_number_raw |-> m[1],
         edit_id |-> m[2],
         code |-> m[3],
         source_dir |-> dir \o << folder_name, << "regression" >> >>,
         dest_dir |-> DestDir(IsGbdf(dir), flag, DestFolderName(folder_name)),
         postman_collection_name |-> names.collection,
         postman_file_name |-> names.file,
         folder_name |-> folder_name]

\* ------------------------------------------------------------------------
\* discover_ts_folders: the steps
\* ------------------------------------------------------------------------
\* glob.glob(os.path.join(base_dir, pattern)): the entries in listing order
glob(pattern) ==
    LET hit == SelectSeq(folders, LAMBDA f : fnmatch(pattern, f.name))
    IN  [i \in 1..Len(hit) |-> hit[i].name]

RECURSIVE GlobAll(_, _)
\* glob.glob(pattern_i) + glob.glob(pattern_i+1) + ...
GlobAll(patterns, i) ==
    IF i > Len(patterns) THEN << >>
    ELSE glob(patterns[i]) \o GlobAll(patterns, i + 1)

\* os.path.basename(folder_path) of the folder the loop is at
folder_name == ts_folders[di]

\* os.path.exists(os.path.join(folder_path, "regression"))
HasRegression(name) == \E i \in 1..Len(folders) : folders[i].name = name /\ folders[i].regression

match == MatchFrom(Grammars(IsGbdf(base_dir)), folder_name, 1)

InDiscLoop == pc = "d_loop" /\ di <= Len(ts_folders)

\* the patterns are globbed and concatenated
DiscGlob ==
    /\ pc = "d_entry"
    /\ ts_folders' = GlobAll(IF IsGbdf(base_dir) THEN GbdfPatterns ELSE WgsPatterns, 1)
    /\ di' = 1
    /\ pc' = "d_loop"
    /\ UNCHANGED << postVars, base_dir, use_wgs_csbd_destination, folders, discovered, mainVars, runs,
                    normVars, mapVars, batchVars, fileVars, localVars, log >>

\* the loop body reaches models.append(model_config)
DiscAppend ==
    /\ InDiscLoop
    /\ match # NoMatch
    /\ HasRegression(folder_name)
    /\ discovered' = Append(discovered,
                            ModelConfig(base_dir, use_wgs_csbd_destination, folder_name, match))
    /\ di' = di + 1
    /\ UNCHANGED << postVars, pc, base_dir, use_wgs_csbd_destination, folders, ts_folders, mainVars, runs,
                    normVars, mapVars, batchVars, fileVars, localVars, log >>

\* the model appended although the regression folder is missing
DiscNoRegression_appends ==
    /\ InDiscLoop
    /\ match # NoMatch
    /\ ~HasRegression(folder_name)
    /\ log' = log \cup { << "noregression", di, folder_name >> }
    /\ discovered' = Append(discovered,
                            ModelConfig(base_dir, use_wgs_csbd_destination, folder_name, match))
    /\ di' = di + 1
    /\ UNCHANGED << postVars, pc, base_dir, use_wgs_csbd_destination, folders, ts_folders, mainVars, runs,
                    normVars, mapVars, batchVars, fileVars, localVars >>

\* "Warning: Regression folder not found" and continue
DiscNoRegression ==
    /\ InDiscLoop
    /\ match # NoMatch
    /\ ~HasRegression(folder_name)
    /\ log' = log \cup { << "noregression", di, folder_name >> }
    /\ di' = di + 1
    /\ UNCHANGED << postVars, pc, base_dir, use_wgs_csbd_destination, folders, ts_folders, discovered,
                    mainVars, runs, normVars, mapVars, batchVars, fileVars, localVars >>

\* the warning followed by a break out of the loop
DiscNoParse_breaks ==
    /\ InDiscLoop
    /\ match = NoMatch
    /\ log' = log \cup { << "noparse", di, folder_name >> }
    /\ di' = Len(ts_folders) + 1
    /\ UNCHANGED << postVars, pc, base_dir, use_wgs_csbd_destination, folders, ts_folders, discovered,
                    mainVars, runs, normVars, mapVars, batchVars, fileVars, localVars >>

\* "Warning: Could not parse folder name": the else of if match
DiscNoParse ==
    /\ InDiscLoop
    /\ match = NoMatch
    /\ log' = log \cup { << "noparse", di, folder_name >> }
    /\ di' = di + 1
    /\ UNCHANGED << postVars, pc, base_dir, use_wgs_csbd_destination, folders, ts_folders, discovered,
                    mainVars, runs, normVars, mapVars, batchVars, fileVars, localVars >>

\* the for loop is exhausted: return models
DiscReturn ==
    /\ pc = "d_loop"
    /\ di > Len(ts_folders)
    /\ pc' = "d_returned"
    /\ UNCHANGED << postVars, discVars, mainVars, runs, normVars, mapVars, batchVars, fileVars,
                    localVars, log >>

DiscStep == DiscGlob \/ DiscAppend \/ DiscNoRegression \/ DiscNoParse \/ DiscReturn

\* ------------------------------------------------------------------------
\* get_models_config and main
\* ------------------------------------------------------------------------
\* STATIC_MODELS_CONFIG["wgs_csbd"]
StaticWgsCsbd ==
    << [ts_number |-> << "0", "1" >>,
         edit_id |-> << "RULEEM000001" >>,
         code |-> << "W04" >>,
         source_dir |-> << << "source_folder" >>, << "WGS", "_", "CSBD" >>, << "TS", "_", "0", "1", "_", "Covid", "_", "WGS", "_", "CSBD", "_", "RULEEM000001", "_", "W04", "_", "sur" >>, << "regression" >> >>,
         dest_dir |-> << << "renaming_jsons" >>, << "WGS", "_", "CSBD" >>, << "TS", "_", "0", "1", "_", "Covid", "_", "WGS", "_", "CSBD", "_", "RULEEM000001", "_", "W04", "_", "dis" >>, << "regression" >> >>,
         postman_collection_name |-> << "TS", "_", "0", "1", "_", "Covid", "_", "Collection" >>,
         postman_file_name |-> << "covid", "_", "wgs", "_", "csbd", "_", "RULEEM000001", "_", "w04", ".json" >>],
       [ts_number |-> << "0", "2" >>,
         edit_id |-> << "RULELATE000001" >>,
         code |-> << "00W17" >>,
         source_dir |-> << << "source_folder" >>, << "WGS", "_", "CSBD" >>, << "TS", "_", "0", "2", "_", "Laterality Policy", "-Disgnosis to Diagnosis", "_", "WGS", "_", "CSBD", "_", "RULELATE000001", "_", "00W17", "_", "sur" >>, << "regression" >> >>,
         dest_dir |-> << << "renaming_jsons" >>, << "WGS", "_", "CSBD" >>, << "TS", "_", "0", "2", "_", "Laterality Policy", "-Disgnosis to Diagnosis", "_", "WGS", "_", "CSBD", "_", "RULELATE000001", "_", "00W17", "_", "dis" >>, << "regression" >> >>,
         postman_collection_name |-> << "TS", "_", "0", "2", "_", "Laterality", "_", "Collection" >>,
         postman_file_name |-> << "laterality", "_", "wgs", "_", "csbd", "_", "RULELATE000001", "_", "00w17", ".json" >>],
       [ts_number |-> << "0", "3" >>,
         edit_id |-> << "RULEREVE000005" >>,
         code |-> << "00W28" >>,
         source_dir |-> << << "source_folder" >>, << "WGS", "_", "CSBD" >>, << "TS", "_", "0", "3", "_", "Revenue", "_", "SubEdit5", "_", "WGS", "_", "CSBD", "_", "RULEREVE000005", "_", "00W28", "_", "sur" >>, << "regression" >> >>,
         dest_dir |-> << << "renaming_jsons" >>, << "WGS", "_", "CSBD" >>, << "TS", "_", "0", "3", "_", "Revenue", "_", "SubEdit5", "_", "WGS", "_", "RULEREVE000005", "_", "00W28" >>, << "regression" >> >>,
         postman_collection_name |-> << "TS", "_", "0", "3", "_", "Revenue", "_", "SubEdit5", "_", "Collection" >>,
         postman_file_name |-> << "revenue", "_", "wgs", "_", "csbd", "_", "RULEREVE000005", "_", "00w28", ".json" >>],
       [ts_number |-> << "0", "4" >>,
         edit_id |-> << "RULEREVE000004" >>,
         code |-> << "00W28" >>,
         source_dir |-> << << "source_folder" >>, << "WGS", "_", "CSBD" >>, << "TS", "_", "0", "4", "_", "Revenue", "_", "SubEdit4", "_", "WGS", "_", "CSBD", "_", "RULEREVE000004", "_", "00W28", "_", "sur" >>, << "regression" >> >>,
         dest_dir |-> << << "renaming_jsons" >>, << "WGS", "_", "CSBD" >>, << "TS", "_", "0", "4", "_", "Revenue", "_", "SubEdit4", "_", "WGS", "_", "RULEREVE000004", "_", "00W28" >>, << "regression" >> >>,
         postman_collection_name |-> << "TS", "_", "0", "4", "_", "Revenue", "_", "SubEdit4", "_", "Collection" >>,
         postman_file_name |-> << "revenue", "_", "wgs", "_", "csbd", "_", "RULEREVE000004", "_", "00w28", ".json" >>],
       [ts_number |-> << "0", "5" >>,
         edit_id |-> << "RULEREVE000003" >>,
         code |-> << "00W28" >>,
         source_dir |-> << << "source_folder" >>, << "WGS", "_", "CSBD" >>, << "TS", "_", "0", "5", "_", "Revenue", "_", "SubEdit3", "_", "WGS", "_", "CSBD", "_", "RULEREVE000003", "_", "00W28", "_", "sur" >>, << "regression" >> >>,
         dest_dir |-> << << "renaming_jsons" >>, << "WGS", "_", "CSBD" >>, << "TS", "_", "0", "5", "_", "Revenue", "_", "SubEdit3", "_", "WGS", "_", "RULEREVE000003", "_", "00W28" >>, << "regression" >> >>,
         postman_collection_name |-> << "TS", "_", "0", "5", "_", "Revenue", "_", "SubEdit3", "_", "Collection" >>,
         postman_file_name |-> << "revenue", "_", "wgs", "_", "csbd", "_", "RULEREVE000003", "_", "00w28", ".json" >>],
       [ts_number |-> << "0", "6" >>,
         edit_id |-> << "RULEREVE000002" >>,
         code |-> << "00W28" >>,
         source_dir |-> << << "source_folder" >>, << "WGS", "_", "CSBD" >>, << "TS", "_", "0", "6", "_", "Revenue", "_", "SubEdit2", "_", "WGS", "_", "CSBD", "_", "RULEREVE000002", "_", "00W28", "_", "sur" >>, << "regression" >> >>,
         dest_dir |-> << << "renaming_jsons" >>, << "WGS", "_", "CSBD" >>, << "TS", "_", "0", "6", "_", "Revenue", "_", "SubEdit2", "_", "WGS", "_", "RULEREVE000002", "_", "00W28" >>, << "regression" >> >>,
         postman_collection_name |-> << "TS", "_", "0", "6", "_", "Revenue", "_", "SubEdit2", "_", "Collection" >>,
         postman_file_name |-> << "revenue", "_", "wgs", "_", "csbd", "_", "RULEREVE000002", "_", "00w28", ".json" >>],
       [ts_number |-> << "0", "7" >>,
         edit_id |-> << "RULEREVE000001" >>,
         code |-> << "00W28" >>,
         source_dir |-> << << "source_folder" >>, << "WGS", "_", "CSBD" >>, << "TS", "_", "0", "7", "_", "Revenue", "_", "SubEdit1", "_", "WGS", "_", "CSBD", "_", "RULEREVE000001", "_", "00W28", "_", "sur" >>, << "regression" >> >>,
         dest_dir |-> << << "renaming_jsons" >>, << "WGS", "_", "CSBD" >>, << "TS", "_", "0", "7", "_", "Revenue", "_", "SubEdit1", "_", "WGS", "_", "RULEREVE000001", "_", "00W28" >>, << "regression" >> >>,
         postman_collection_name |-> << "TS", "_", "0", "7", "_", "Revenue", "_", "SubEdit1", "_", "Collection" >>,
         postman_file_name |-> << "revenue", "_", "wgs", "_", "csbd", "_", "RULEREVE000001", "_", "00w28", ".json" >>],
       [ts_number |-> << "0", "8" >>,
         edit_id |-> << "RULELAB0000009" >>,
         code |-> << "00W13" >>,
         source_dir |-> << << "source_folder" >>, << "WGS", "_", "CSBD" >>, << "TS", "_", "0", "8", "_", "LabPanel", "_", "WGS", "_", "CSBD", "_", "RULELAB0000009", "_", "00W13", "_", "sur" >>, << "regression" >> >>,
         dest_dir |-> << << "renaming_jsons" >>, << "WGS", "_", "CSBD" >>, << "TS", "_", "0", "8", "_", "LabPanel", "_", "WGS", "_", "RULELAB0000009", "_", "00W13" >>, << "regression" >> >>,
         postman_collection_name |-> << "TS", "_", "0", "8", "_", "LabPanel", "_", "Collection" >>,
         postman_file_name |-> << "lab", "_", "wgs", "_", "csbd", "_", "RULELAB0000009", "_", "00w13", ".json" >>],
       [ts_number |-> << "0", "9" >>,
         edit_id |-> << "RULEDEVI000003" >>,
         code |-> << "00W13" >>,
         source_dir |-> << << "source_folder" >>, << "WGS", "_", "CSBD" >>, << "TS", "_", "0", "9", "_", "DeviceDependent", "_", "WGS", "_", "CSBD", "_", "RULEDEVI000003", "_", "00W13", "_", "sur" >>, << "regression" >> >>,
         dest_dir |-> << << "renaming_jsons" >>, << "WGS", "_", "CSBD" >>, << "TS", "_", "0", "9", "_", "DeviceDependent", "_", "WGS", "_", "RULEDEVI000003", "_", "00W13" >>, << "regression" >> >>,
         postman_collection_name |-> << "TS", "_", "0", "9", "_", "DeviceDependent", "_", "Collection" >>,
         postman_file_name |-> << "device", "_", "wgs", "_", "csbd", "_", "RULEDEVI000003", "_", "00w13", ".json" >>],
       [ts_number |-> << "1", "0" >>,
         edit_id |-> << "RULERECO000001" >>,
         code |-> << "00W34" >>,
         source_dir |-> << << "source_folder" >>, << "WGS", "_", "CSBD" >>, << "TS", "_", "1", "0", "_", "RecoveryRoom", "_", "WGS", "_", "CSBD", "_", "RULERECO000001", "_", "00W34", "_", "sur" >>, << "regression" >> >>,
         dest_dir |-> << << "renaming_jsons" >>, << "WGS", "_", "CSBD" >>, << "TS", "_", "1", "0", "_", "RecoveryRoom", "_", "WGS", "_", "RULERECO000001", "_", "00W34" >>, << "regression" >> >>,
         postman_collection_name |-> << "TS", "_", "1", "0", "_", "RecoveryRoom", "_", "Collection" >>,
         postman_file_name |-> << "recovery", "_", "wgs", "_", "csbd", "_", "RULERECO000001", "_", "00w34", ".json" >>],
       [ts_number |-> << "1", "1" >>,
         edit_id |-> << "RULERECO000003" >>,
         code |-> << "00W26" >>,
         source_dir |-> << << "source_folder" >>, << "WGS", "_", "CSBD" >>, << "TS", "_", "1", "1", "_", "RevenueHCPCS", "_", "WGS", "_", "CSBD", "_", "RULERECO000003", "_", "00W26", "_", "sur" >>, << "regression" >> >>,
         dest_dir |-> << << "renaming_jsons" >>, << "WGS", "_", "CSBD" >>, << "TS", "_", "1", "1", "_", "RevenueHCPCS", "_", "WGS", "_", "RULERECO000003", "_", "00W26" >>, << "regression" >> >>,
         postman_collection_name |-> << "TS", "_", "1", "1", "_", "RevenueHCPCS", "_", "Collection" >>,
         postman_file_name |-> << "revenue", "_", "wgs", "_", "csbd", "_", "RULERECO000003", "_", "00w26", ".json" >>],
       [ts_number |-> << "1", "2" >>,
         edit_id |-> << "RULEINCI000001" >>,
         code |-> << "00W34" >>,
         source_dir |-> << << "source_folder" >>, << "WGS", "_", "CSBD" >>, << "TS", "_", "1", "2", "_", "Incidental", "_", "WGS", "_", "CSBD", "_", "RULEINCI000001", "_", "00W34", "_", "sur" >>, << "regression" >> >>,
         dest_dir |-> << << "renaming_jsons" >>, << "WGS", "_", "CSBD" >>, << "TS", "_", "1", "2", "_", "Incidental", "_", "WGS", "_", "RULEINCI000001", "_", "00W34" >>, << "regression" >> >>,
         postman_collection_name |-> << "TS", "_", "1", "2", "_", "Incidental", "_", "Collection" >>,
         postman_file_name |-> << "incidentcal", "_", "wgs", "_", "csbd", "_", "RULEINCI000001", "_", "00w34", ".json" >>],
       [ts_number |-> << "1", "3" >>,
         edit_id |-> << "RULERCE0000006" >>,
         code |-> << "00W06" >>,
         source_dir |-> << << "source_folder" >>, << "WGS", "_", "CSBD" >>, << "TS", "_", "1", "3", "_", "RevenueModel", "_", "v3", "_", "WGS", "_", "CSBD", "_", "RULERCE0000006", "_", "00W06", "_", "sur" >>, << "regression" >> >>,
         dest_dir |-> << << "renaming_jsons" >>, << "WGS", "_", "CSBD" >>, << "TS", "_", "1", "3", "_", "RevenueModel", "_", "v3", "_", "WGS", "_", "RULERCE0000006", "_", "00W06" >>, << "regression" >> >>,
         postman_collection_name |-> << "TS", "_", "1", "3", "_", "RevenueModel", "_", "v3", "_", "Collection" >>,
         postman_file_name |-> << "revenue", "_", "model", "_", "wgs", "_", "csbd", "_", "RULERCE0000006", "_", "00w06", ".json" >>],
       [ts_number |-> << "1", "4" >>,
         edit_id |-> << "RULERCE000001" >>,
         code |-> << "00W26" >>,
         source_dir |-> << << "source_folder" >>, << "WGS", "_", "CSBD" >>, << "TS", "_", "1", "4", "_", "HCPCSRevenue", "_", "WGS", "_", "CSBD", "_", "RULERCE000001", "_", "00W26", "_", "sur" >>, << "regression" >> >>,
         dest_dir |-> << << "renaming_jsons" >>, << "WGS", "_", "CSBD" >>, << "TS", "_", "1", "4", "_", "HCPCSRevenue", "_", "WGS", "_", "RULERCE000001", "_", "00W26" >>, << "regression" >> >>,
         postman_collection_name |-> << "TS", "_", "1", "4", "_", "HCPCSRevenue", "_", "Collection" >>,
         postman_file_name |-> << "hcpcs", "_", "wgs", "_", "csbd", "_", "RULERCE000001", "_", "00w26", ".json" >>],
       [ts_number |-> << "1", "5" >>,
         edit_id |-> << "RULERCE000005" >>,
         code |-> << "00W06" >>,
         source_dir |-> << << "source_folder" >>, << "WGS", "_", "CSBD" >>, << "TS", "_", "1", "5", "_", "RevenueModel", "_", "WGS", "_", "CSBD", "_", "RULERCE000005", "_", "00W06", "_", "sur" >>, << "regression" >> >>,
         dest_dir |-> << << "renaming_jsons" >>, << "WGS", "_", "CSBD" >>, << "TS", "_", "1", "5", "_", "RevenueModel", "_", "WGS", "_", "RULERCE000005", "_", "00W06" >>, << "regression" >> >>,
         postman_collection_name |-> << "TS", "_", "1", "5", "_", "RevenueModel", "_", "Collection" >>,
         postman_file_name |-> << "revenue", "_", "wgs", "_", "csbd", "_", "RULERCE000005", "_", "00w06", ".json" >>],
       [ts_number |-> << "4", "6" >>,
         edit_id |-> << "RULEEM000046" >>,
         code |-> << "00W46" >>,
         source_dir |-> << << "source_folder" >>, << "WGS", "_", "CSBD" >>, << "TS", "_", "4", "6", "_", "MultipleEM", "_", "WGS", "_", "CSBD", "_", "RULEEM000046", "_", "00W46", "_", "sur" >>, << "regression" >> >>,
         dest_dir |-> << << "renaming_jsons" >>, << "WGS", "_", "CSBD" >>, << "TS", "_", "4", "6", "_", "MultipleEM", "_", "WGS", "_", "RULEEM000046", "_", "00W46" >>, << "regression" >> >>,
         postman_collection_name |-> << "TS", "_", "4", "6", "_", "MultipleEM", "_", "Collection" >>,
         postman_file_name |-> << "multiple", "_", "em", "_", "wgs", "_", "csbd", "_", "RULEEM000046", "_", "00w46", ".json" >>] >>

\* STATIC_MODELS_CONFIG["gbdf"]
StaticGbdf ==
    << [ts_number |-> << "0", "1" >>,
         edit_id |-> << "RULEEM000001" >>,
         code |-> << "v04" >>,
         source_dir |-> << << "source_folder" >>, << "GBDF" >>, << "TS", "_", "4", "7", "_", "Covid", "_", "gbdf", "_", "mcr", "_", "RULEEM000001", "_", "v04", "_", "sur" >>, << "regression" >> >>,
         dest_dir |-> << << "renaming_jsons" >>, << "GBDF" >>, << "TS", "_", "4", "7", "_", "Covid", "_", "gbdf", "_", "mcr", "_", "RULEEM000001", "_", "v04", "_", "dis" >>, << "regression" >> >>,
         postman_collection_name |-> << "TS", "_", "4", "7", "_", "Covid", "_", "gbdf", "_", "mcr", "_", "Collection" >>,
         postman_file_name |-> << "covid", "_", "gbdf", "_", "mcr", "_", "RULEEM000001", "_", "v04", ".json" >>] >>

\* the two directories get_models_config searches
WGS_CSBD_DIR == << << "source_folder" >>, << "WGS", "_", "CSBD" >> >>
GBDF_DIR == << << "source_folder" >>, << "GBDF" >> >>

\* get_models_config: the discovered list, or the static one when it is empty
Configured(gbdf, found) ==
    IF found # << >> THEN found
    ELSE IF gbdf THEN StaticGbdf ELSE StaticWgsCsbd

\* next((model for model in models_config if model.get("ts_number") == ts), None)
\* is not None
HasTs(config, ts) == \E i \in 1..Len(config) : config[i].ts_number = ts

\* the model that next(...) returns
FindTs(config, ts) ==
    config[CHOOSE i \in 1..Len(config) :
               /\ config[i].ts_number = ts
               /\ \A j \in 1..(i - 1) : config[j].ts_number # ts]

\* the TS flags of the model, in the order main tests them
TS07 == << "0", "7" >>
TS47 == << "4", "7" >>

\* some TS flag that is set names no model of models_config
SomeNotFound ==
    \/ args.TS07 /\ ~ HasTs(models_config, TS07)
    \/ args.TS47 /\ ~ HasTs(models_config, TS47)

\* the three tests for the category flag
CategoryFlagMissing ==
    \/ args.TS07 /\ ~ args.wgs_csbd
    \/ args.TS47 /\ ~ args.gbdf_mcr
    \/ args.all /\ ~ args.wgs_csbd /\ ~ args.gbdf_mcr

\* the list built by the TS flags and replaced by --all
models_to_process ==
    IF args.all THEN models_config
    ELSE (IF args.TS07 THEN << FindTs(models_config, TS07) >> ELSE << >>)
         \o (IF args.TS47 THEN << FindTs(models_config, TS47) >> ELSE << >>)

\* args.edit_id and args.code
CustomGiven == args.edit_id /\ args.code

\* the entry of the searched directory that source_dir lies in, if any
FolderOf(source_dir) ==
    { f \in 1..Len(folders) :
          source_dir = base_dir \o << folders[f].name, << "regression" >> >>
          /\ folders[f].regression }

\* os.path.exists(source_dir)
SourceExists(source_dir) == FolderOf(source_dir) # { }

\* os.listdir(source_dir)
ListingOf(source_dir) ==
    IF SourceExists(source_dir)
    THEN folders[CHOOSE f \in FolderOf(source_dir) : TRUE].listing
    ELSE << >>

\* the arguments rename_files is called with, model by model
CallsOf(list) ==
    [i \in 1..Len(list) |->
        [edit_id |-> list[i].edit_id, code |-> list[i].code,
         ts_number |-> list[i].ts_number,
         source_dir |-> list[i].source_dir, dest_dir |-> list[i].dest_dir,
         listing |-> ListingOf(list[i].source_dir)]]

\* get_models_config is called: discovery starts in the directory of the
\* category
MainLoad ==
    /\ pc = "m_entry"
    /\ driver' = "main"
    /\ base_dir' = IF args.gbdf_mcr THEN GBDF_DIR ELSE WGS_CSBD_DIR
    /\ use_wgs_csbd_destination' = IF args.gbdf_mcr THEN FALSE ELSE args.wgs_csbd
    /\ pc' = "d_entry"
    /\ UNCHANGED << postVars, folders, ts_folders, di, discovered, mainVars, runs, normVars, mapVars,
                    models, mi, successful_models, failed_models, outcomes, fileVars,
                    localVars, log >>

\* get_models_config that returns what discovery found, without the fallback
MainConfig_no_fallback ==
    /\ pc = "d_returned"
    /\ driver = "main"
    /\ models_config' = discovered
    /\ pc' = "m_dispatch"
    /\ UNCHANGED << postVars, discVars, args, root_exists, exit_code, runs, normVars, mapVars, batchVars,
                    fileVars, localVars, log >>

\* discovery returned: get_models_config returns the list or the static one
MainConfig ==
    /\ pc = "d_returned"
    /\ driver = "main"
    /\ models_config' = Configured(args.gbdf_mcr, discovered)
    /\ pc' = "m_dispatch"
    /\ UNCHANGED << postVars, discVars, args, root_exists, exit_code, runs, normVars, mapVars, batchVars,
                    fileVars, localVars, log >>

\* --list: the models are printed, sys.exit(0)
MainList ==
    /\ pc = "m_dispatch"
    /\ args.list
    /\ exit_code' = 0
    /\ pc' = "m_exited"
    /\ UNCHANGED << postVars, discVars, args, root_exists, models_config, runs, normVars, mapVars,
                    batchVars, fileVars, localVars, log >>

\* --edit-id with --code: rename_files is called with the given parameters
\* on the directories the command line names
MainCustom ==
    /\ pc = "m_dispatch"
    /\ ~ args.list
    /\ CustomGiven
    /\ driver' = "custom"
    /\ \E l \in Listings(BatchFileNames, MaxBatchFiles), e \in { E1, E3 } :
           models' = << [edit_id |-> e, code |-> C1c, listing |-> l] >>
    /\ mi' = 1
    /\ srcExists' \in [{ 1 } -> BOOLEAN]
    /\ srcExists'[1] \/ models'[1].listing = << >>
    /\ src' = << Range(models'[1].listing) >>
    /\ dstExists' \in [{ 1 } -> BOOLEAN]
    /\ dst' = << { } >>
    /\ pc' = "rf_entry"
    /\ UNCHANGED << postVars, discVars, mainVars, runs, normVars, mapVars, successful_models,
                    failed_models, outcomes, localVars, log >>

\* the custom call returned, with files or without: sys.exit(0)
MainCustomDone ==
    /\ pc = "rf_returned"
    /\ driver = "custom"
    /\ exit_code' = 0
    /\ pc' = "m_exited"
    /\ UNCHANGED << postVars, discVars, args, root_exists, models_config, runs, normVars, mapVars,
                    batchVars, fileVars, localVars, log >>

\* the except clause of the custom call reached, and the run goes on to exit 0
MainCustomFailed_exit0 ==
    /\ pc = "rf_raised"
    /\ driver = "custom"
    /\ exit_code' = 0
    /\ pc' = "m_exited"
    /\ UNCHANGED << postVars, discVars, args, root_exists, models_config, runs, normVars, mapVars,
                    batchVars, fileVars, localVars, log >>

\* the custom call raised: except Exception, sys.exit(1)
MainCustomFailed ==
    /\ pc = "rf_raised"
    /\ driver = "custom"
    /\ exit_code' = 1
    /\ pc' = "m_exited"
    /\ UNCHANGED << postVars, discVars, args, root_exists, models_config, runs, normVars, mapVars,
                    batchVars, fileVars, localVars, log >>

\* "TSnn model not found!": sys.exit(1)
MainNotFound ==
    /\ pc = "m_dispatch"
    /\ ~ args.list
    /\ ~ CustomGiven
    /\ SomeNotFound
    /\ exit_code' = 1
    /\ pc' = "m_exited"
    /\ UNCHANGED << postVars, discVars, args, root_exists, models_config, runs, normVars, mapVars,
                    batchVars, fileVars, localVars, log >>

\* "--wgs_csbd / --gbdf_mcr flag is required": sys.exit(1)
MainFlagMissing ==
    /\ pc = "m_dispatch"
    /\ ~ args.list
    /\ ~ CustomGiven
    /\ ~ SomeNotFound
    /\ CategoryFlagMissing
    /\ exit_code' = 1
    /\ pc' = "m_exited"
    /\ UNCHANGED << postVars, discVars, args, root_exists, models_config, runs, normVars, mapVars,
                    batchVars, fileVars, localVars, log >>

\* "No model specified!": sys.exit(1)
MainNoModel ==
    /\ pc = "m_dispatch"
    /\ ~ args.list
    /\ ~ CustomGiven
    /\ ~ SomeNotFound
    /\ ~ CategoryFlagMissing
    /\ models_to_process = << >>
    /\ exit_code' = 1
    /\ pc' = "m_exited"
    /\ UNCHANGED << postVars, discVars, args, root_exists, models_config, runs, normVars, mapVars,
                    batchVars, fileVars, localVars, log >>

\* the loop over models_to_process begins; the destination folders of an
\* earlier run are all there or all absent
MainStartLoop ==
    /\ pc = "m_dispatch"
    /\ ~ args.list
    /\ ~ CustomGiven
    /\ ~ SomeNotFound
    /\ ~ CategoryFlagMissing
    /\ models_to_process # << >>
    /\ models' = CallsOf(models_to_process)
    /\ mi' = 1
    /\ srcExists' = [m \in 1..Len(models_to_process) |-> SourceExists(models_to_process[m].source_dir)]
    /\ src' = [m \in 1..Len(models_to_process) |-> Range(ListingOf(models_to_process[m].source_dir))]
    /\ \E made \in BOOLEAN : dstExists' = [m \in 1..Len(models_to_process) |-> made]
    /\ dst' = [m \in 1..Len(models_to_process) |-> { }]
    /\ pc' = "b_loop"
    /\ UNCHANGED << postVars, discVars, mainVars, runs, normVars, mapVars, driver, successful_models,
                    failed_models, outcomes, localVars, log >>

\* the loop and the summary are over: main returns, exit code 0
MainExit0 ==
    /\ pc = "b_done"
    /\ driver = "main"
    /\ exit_code' = 0
    /\ pc' = "m_exited"
    /\ UNCHANGED << postVars, discVars, args, root_exists, models_config, runs, normVars, mapVars,
                    batchVars, fileVars, localVars, log >>

MainStep ==
    \/ MainLoad \/ MainConfig \/ MainList \/ MainCustom \/ MainCustomDone \/ MainCustomFailed
    \/ MainNotFound \/ MainFlagMissing \/ MainNoModel \/ MainStartLoop \/ MainExit0

\* ------------------------------------------------------------------------
\* PostmanCollectionGenerator.generate_collection_for_directory
\* ------------------------------------------------------------------------
\* The method is called on a generator by its own caller, never by
\* rename_files.  dir_name names an entry under source_dir.  A tree holds
\* its files, the directories written as entries of their own, and the
\* directories that the path of an entry goes through.
\* the directories on the paths of the entries of dir
ParentsOf(dir) ==
    UNION { { [name |-> SubSeq(e.name, 1, i - 1), from |-> DIRECTORY] :
                i \in { k \in 1..Len(e.name) : e.name[k] = SEP } } : e \in dir }

\* every entry of the tree, files and directories
EntriesOf(dir) == dir \cup ParentsOf(dir)

\* dir_path.exists()
PathExists(dir, dir_name) == \E e \in EntriesOf(dir) : e.name = dir_name

\* the entries of dir whose path starts with dir_name and a separator: what
\* dir_path.glob("**/*") goes through, directories as well as files
EntriesUnder(dir, dir_name) ==
    { e \in EntriesOf(dir) :
        /\ Len(e.name) > Len(dir_name) + 1
        /\ SubSeq(e.name, 1, Len(dir_name) + 1) = dir_name \o << SEP >> }

\* list(dir_path.glob("**/*.json")): the entries under dir_path whose name
\* ends with '.json'; a directory of such a name is one of them
GlobJson(dir, dir_name) ==
    { e \in EntriesUnder(dir, dir_name) : EndsWith(Basename(e.name), JSON) }

\* dir_name.replace(' ', '_'): a blank is an atom of its own or stands within
\* a descriptive text, and "_" is always an atom of its own: the atoms an
\* atom becomes
BlankAtom(a) ==
    LET BlankTable ==
            { << " ", << "_" >> >>,
              << "Sub Edit ", << "Sub", "_", "Edit", "_" >> >>,
              << "Revenue code Services not payable on Facility claim",
                 << "Revenue", "_", "code", "_", "Services", "_", "not", "_", "payable", "_",
                    "on", "_", "Facility", "_", "claim" >> >>,
              << "Lab panel Model", << "Lab", "_", "panel", "_", "Model" >> >>,
              << "Recovery Room Reimbursement", << "Recovery", "_", "Room", "_", "Reimbursement" >> >>,
              << "Laterality Policy", << "Laterality", "_", "Policy" >> >>,
              << "-Disgnosis to Diagnosis", << "-Disgnosis", "_", "to", "_", "Diagnosis" >> >>,
              << "Device Dependent Procedures", << "Device", "_", "Dependent", "_", "Procedures" >> >>,
              << "revenue model", << "revenue", "_", "model" >> >>,
              << "Revenue Code to HCPCS Xwalk-1B",
                 << "Revenue", "_", "Code", "_", "to", "_", "HCPCS", "_", "Xwalk-1B" >> >>,
              << "Incidentcal Services Facility", << "Incidentcal", "_", "Services", "_", "Facility" >> >>,
              << "Revenue model CR v3", << "Revenue", "_", "model", "_", "CR", "_", "v3" >> >>,
              << "HCPCS to Revenue Code Xwalk",
                 << "HCPCS", "_", "to", "_", "Revenue", "_", "Code", "_", "Xwalk" >> >>,
              << "Multiple E&M Same day", << "Multiple", "_", "E&M", "_", "Same", "_", "day" >> >> }
    IN  IF \E e \in BlankTable : e[1] = a
        THEN (CHOOSE e \in BlankTable : e[1] = a)[2]
        ELSE << a >>

RECURSIVE ReplaceBlanks(_)
ReplaceBlanks(s) ==
    IF s = << >> THEN << >> ELSE BlankAtom(Head(s)) \o ReplaceBlanks(Tail(s))

\* re.match(r'TS_(\d{1,3})_', dir_name): group 1, or NoMatch.  The pattern
\* has no $: what follows the second "_" is free.
TsMatch(dir_name) ==
    IF Len(dir_name) >= 4 /\ dir_name[1] = "TS" /\ dir_name[2] = "_"
    THEN LET n == ClassRun(dir_name, 3, DigitSet)
         IN  IF n \in 1..3 /\ 3 + n <= Len(dir_name) /\ dir_name[3 + n] = "_"
             THEN SubSeq(dir_name, 3, 2 + n)
             ELSE NoMatch
    ELSE NoMatch

\* the directory of the collection under output_dir
collection_dir_name(dir_name) ==
    IF TsMatch(dir_name) # NoMatch
    THEN << "TS", "_" >> \o TsMatch(dir_name) \o << "_", "collection" >>
    ELSE ReplaceBlanks(dir_name) \o << "_", "collection" >>

\* what a call leaves behind: the returned value, and the document of the
\* minimal format (keys version, name, type, items) with its name, the
\* directory of collection.json and the requests under "items"
DirResult(kind, name, dir, items, file) ==
    [kind |-> kind, keys |-> { "version", "name", "type", "items" }, name |-> name, dir |-> dir,
     items |-> items, file |-> file]

DirNone == DirResult("None", << >>, << >>, << >>, "absent")

\* the directories a caller may name
GenDirNames ==
    { << "archive" >>,
      << "old", " ", "files" >>,
      << "TS", "_", "0", "7", "_", "REVENUE", "_", "WGS", "_", "CSBD", "_", "rvn011", "_",
         "00W11", "_", "dis" >>,
      << "TS", "_", "1", "2", "3", "4", "_", "Lab panel Model" >>,
      << "empty" >> }

\* dir_path does not exist
GenDirMissing ==
    /\ pc = "g_entry"
    /\ driver = "generator"
    /\ \E dir_name \in GenDirNames :
          /\ ~ dstExists[mi] \/ ~ PathExists(dst[mi], dir_name)
          /\ postman' = DirNone
    /\ pc' = "gd_returned"
    /\ UNCHANGED << generate_postman, not_json, collection, validation_result, discVars, mainVars, runs,
                    normVars, mapVars, batchVars, fileVars, localVars, log >>

\* dir_path.glob("**/*.json") finds nothing
GenDirNoJson ==
    /\ pc = "g_entry"
    /\ driver = "generator"
    /\ dstExists[mi]
    /\ \E dir_name \in GenDirNames :
          /\ PathExists(dst[mi], dir_name)
          /\ GlobJson(dst[mi], dir_name) = { }
          /\ postman' = DirNone
    /\ pc' = "gd_returned"
    /\ UNCHANGED << generate_postman, not_json, collection, validation_result, discVars, mainVars, runs,
                    normVars, mapVars, batchVars, fileVars, localVars, log >>

\* there are '.json' files and _parse_filename accepts none: nothing is
\* written
GenDirNoRequest ==
    /\ pc = "g_entry"
    /\ driver = "generator"
    /\ dstExists[mi]
    /\ \E dir_name \in GenDirNames :
          /\ GlobJson(dst[mi], dir_name) # { }
          /\ \E w \in Walks(GlobJson(dst[mi], dir_name)) :
                /\ ItemsOf(w) = << >>
                /\ postman' = DirNone
    /\ pc' = "gd_returned"
    /\ UNCHANGED << generate_postman, not_json, collection, validation_result, discVars, mainVars, runs,
                    normVars, mapVars, batchVars, fileVars, localVars, log >>

\* collection_dir.mkdir raises after the requests were built; the call is
\* outside the try statement
GenDirMkdirRaises ==
    /\ pc = "g_entry"
    /\ driver = "generator"
    /\ dstExists[mi]
    /\ \E dir_name \in GenDirNames :
          \E w \in Walks(GlobJson(dst[mi], dir_name)) :
             /\ ItemsOf(w) # << >>
             /\ postman' = DirResult("raise", dir_name \o << " API Collection" >>,
                                     collection_dir_name(dir_name), ItemsOf(w), "absent")
    /\ pc' = "gd_raised"
    /\ UNCHANGED << generate_postman, not_json, collection, validation_result, discVars, mainVars, runs,
                    normVars, mapVars, batchVars, fileVars, localVars, log >>

\* collection.json is written in the directory of the collection and its
\* path returned
GenDirWritten ==
    /\ pc = "g_entry"
    /\ driver = "generator"
    /\ dstExists[mi]
    /\ \E dir_name \in GenDirNames :
          \E w \in Walks(GlobJson(dst[mi], dir_name)) :
             /\ ItemsOf(w) # << >>
             /\ postman' = DirResult("path", dir_name \o << " API Collection" >>,
                                     collection_dir_name(dir_name), ItemsOf(w), "written")
    /\ pc' = "gd_returned"
    /\ UNCHANGED << generate_postman, not_json, collection, validation_result, discVars, mainVars, runs,
                    normVars, mapVars, batchVars, fileVars, localVars, log >>

\* open or json.dump raises: the except clause returns None, and the file
\* may have been created already
GenDirWriteFails ==
    /\ pc = "g_entry"
    /\ driver = "generator"
    /\ dstExists[mi]
    /\ \E dir_name \in GenDirNames :
          \E w \in Walks(GlobJson(dst[mi], dir_name)) :
             /\ ItemsOf(w) # << >>
             /\ \E created \in BOOLEAN :
                   postman' = DirResult("None", dir_name \o << " API Collection" >>,
                                        collection_dir_name(dir_name), ItemsOf(w),
                                        IF created THEN "partial" ELSE "absent")
    /\ pc' = "gd_returned"
    /\ UNCHANGED << generate_postman, not_json, collection, validation_result, discVars, mainVars, runs,
                    normVars, mapVars, batchVars, fileVars, localVars, log >>

\* the constructor and the two methods that write a collection
GenStep ==
    \/ GenInit \/ GenInitRaises \/ GenSourceMissing \/ GenNoJson \/ GenNoItem
    \/ GenMkdirRaises \/ GenWritten \/ GenWriteFails
    \/ GenDirMissing \/ GenDirNoJson \/ GenDirNoRequest \/ GenDirMkdirRaises
    \/ GenDirWritten \/ GenDirWriteFails

\* ------------------------------------------------------------------------
\* Pure functions applied to drawn inputs
\* ------------------------------------------------------------------------
\* validate_collection.  The file holds a JSON document: kind says what
\* json.load gives ("dict", "list", "str", "scalar"), or that the text is
\* not JSON ("notjson"), or that the file cannot be opened ("unreadable").
\* keys is what the operator in finds: the keys of a dict, the strings of a
\* list, the texts within a string.  item and items are the lengths of the
\* lists under those keys, -1 for a value that is not a list.
RequiredExtended == << "info", "item" >>
RequiredMinimal == << "version", "name", "type", "items" >>

MissingField(field) == << "Missing required field", field >>
NO_REQUESTS == "Collection contains no requests"

\* the errors appended by "for field in required_fields: if field not in collection"
MissingOf(required, keys) ==
    LET miss == SelectSeq(required, LAMBDA f : f \notin keys)
    IN  [i \in 1..Len(miss) |-> MissingField(miss[i])]

\* one branch of the if: the required fields, the count, the warning, valid.
\* Indexing a list or a string with a key raises TypeError, which the last
\* except clause turns into an error after what was appended before.
ValidateShape(doc, required, listKey, count) ==
    LET errors == MissingOf(required, doc.keys)
    IN  IF listKey \in doc.keys /\ doc.kind # "dict"
        THEN [valid |-> FALSE, errors |-> Append(errors, << "Validation error" >>),
              warnings |-> << >>, stats |-> << >>]
        ELSE LET counted == listKey \in doc.keys /\ count >= 0
                 total == IF counted THEN count ELSE 0
             IN  [valid |-> errors = << >>,
                  errors |-> errors,
                  warnings |-> IF total = 0 THEN << NO_REQUESTS >> ELSE << >>,
                  stats |-> IF counted THEN << << "total_requests", count >> >> ELSE << >>]

\* the shape test written with or
validate_collection_either_key(doc) ==
    IF doc.kind = "unreadable"
    THEN [valid |-> FALSE, errors |-> << << "Validation error" >> >>, warnings |-> << >>, stats |-> << >>]
    ELSE IF doc.kind = "notjson"
    THEN [valid |-> FALSE, errors |-> << << "Invalid JSON format" >> >>, warnings |-> << >>, stats |-> << >>]
    ELSE IF doc.kind = "scalar"
    THEN [valid |-> FALSE, errors |-> << << "Validation error" >> >>, warnings |-> << >>, stats |-> << >>]
    ELSE IF "info" \in doc.keys \/ "item" \in doc.keys
    THEN ValidateShape(doc, RequiredExtended, "item", doc.item)
    ELSE ValidateShape(doc, RequiredMinimal, "items", doc.items)

validate_collection(doc) ==
    IF doc.kind = "unreadable"
    THEN [valid |-> FALSE, errors |-> << << "Validation error" >> >>, warnings |-> << >>, stats |-> << >>]
    ELSE IF doc.kind = "notjson"
    THEN [valid |-> FALSE, errors |-> << << "Invalid JSON format" >> >>, warnings |-> << >>, stats |-> << >>]
    ELSE IF doc.kind = "scalar"
    THEN [valid |-> FALSE, errors |-> << << "Validation error" >> >>, warnings |-> << >>, stats |-> << >>]
    ELSE IF "info" \in doc.keys /\ "item" \in doc.keys
    THEN ValidateShape(doc, RequiredExtended, "item", doc.item)
    ELSE ValidateShape(doc, RequiredMinimal, "items", doc.items)

Validate ==
    /\ pc = "v_entry"
    /\ validation_result' = validate_collection(collection)
    /\ pc' = "v_done"
    /\ UNCHANGED << generate_postman, not_json, postman, collection, discVars, mainVars, runs, normVars,
                    mapVars, batchVars, fileVars, localVars, log >>

Normalize ==
    /\ pc = "norm_entry"
    /\ ts_number' = normalize_ts_number(ts_number_raw)
    /\ pc' = "norm_done"
    /\ UNCHANGED << postVars, discVars, mainVars, runs, ts_number_raw, mapVars, batchVars, fileVars, localVars, log >>

\* the mapper applied to the token, then to its own result
ApplyMap ==
    /\ pc = "map_entry"
    /\ Len(mapped_hist) < 2
    /\ mapped_hist' = Append(mapped_hist,
                             MapSuffix(IF mapped_hist = << >> THEN suffix
                                       ELSE mapped_hist[Len(mapped_hist)]))
    /\ UNCHANGED << postVars, pc, discVars, mainVars, runs, suffix, normVars, batchVars, fileVars, localVars, log >>

\* ------------------------------------------------------------------------
\* Specifications
\* ------------------------------------------------------------------------
NormIdle == ts_number_raw = << >> /\ ts_number = << >>

MapIdle == suffix = << >> /\ mapped_hist = << >>

ValidateIdle == collection = NoCollection /\ validation_result = NoValidation

PostIdle == generate_postman = FALSE /\ not_json = { } /\ postman = NoPostman /\ ValidateIdle

LocalsIdle ==
    /\ json_files = << >>
    /\ fi = 1
    /\ new_filename = << >>
    /\ renamed_files = << >>
    /\ ret = NoRet
    /\ log = { }

DiscIdle ==
    /\ base_dir = << >>
    /\ use_wgs_csbd_destination = FALSE
    /\ folders = << >>
    /\ ts_folders = << >>
    /\ di = 1
    /\ discovered = << >>

MainIdle ==
    /\ args = << >>
    /\ root_exists = TRUE
    /\ models_config = << >>
    /\ exit_code = -1
    /\ runs = 1

RenameIdle ==
    /\ driver = "none"
    /\ models = << >>
    /\ mi = 0
    /\ srcExists = << >>
    /\ src = << >>
    /\ dstExists = << >>
    /\ dst = << >>
    /\ successful_models = << >>
    /\ failed_models = << >>
    /\ outcomes = << >>
    /\ LocalsIdle

\* what dest_dir may hold before the call of the model r: nothing, or a
\* directory under the name the call gives a file of the listing, empty or
\* holding a directory under the name the file has in source_dir
DestLayouts(r) ==
    { { } } \cup
    UNION { { { [name |-> NewNameOf(f, r.edit_id, r.code), from |-> DIRECTORY] },
              { [name |-> NewNameOf(f, r.edit_id, r.code), from |-> DIRECTORY],
                [name |-> NewNameOf(f, r.edit_id, r.code) \o << SEP >> \o f,
                 from |-> DIRECTORY] } } :
            f \in { g \in Range(r.listing) : Accepted(g, r.edit_id, r.code) } }

\* the directories of the models: a missing source directory has no files,
\* a missing dest_dir no entries
Directories ==
    /\ srcExists \in [1..Len(models) -> BOOLEAN]
    /\ \A m \in 1..Len(models) : srcExists[m] \/ models[m].listing = << >>
    /\ src = [m \in 1..Len(models) |-> Range(models[m].listing)]
    /\ dstExists \in [1..Len(models) -> BOOLEAN]
    /\ dst \in [1..Len(models) -> UNION { DestLayouts(models[m]) : m \in 1..Len(models) }]
    /\ \A m \in 1..Len(models) :
          /\ dst[m] \in DestLayouts(models[m])
          /\ dstExists[m] \/ dst[m] = { }

InitNorm ==
    /\ pc = "norm_entry"
    /\ ts_number_raw \in RawInputs
    /\ ts_number = << >>
    /\ MapIdle
    /\ RenameIdle
    /\ DiscIdle
    /\ MainIdle
    /\ PostIdle

InitMap ==
    /\ pc = "map_entry"
    /\ suffix \in SuffixInputs
    /\ mapped_hist = << >>
    /\ NormIdle
    /\ RenameIdle
    /\ DiscIdle
    /\ MainIdle
    /\ PostIdle

\* one direct call of rename_files
InitRename ==
    /\ DiscIdle
    /\ MainIdle
    /\ pc = "rf_entry"
    /\ NormIdle
    /\ MapIdle
    /\ driver = "direct"
    /\ models \in { << r >> : r \in ModelRecords(FileNames, MaxFiles) }
    /\ mi = 1
    /\ Directories
    /\ successful_models = << >>
    /\ failed_models = << >>
    /\ outcomes = << >>
    /\ LocalsIdle
    /\ generate_postman \in BOOLEAN
    /\ not_json \in SUBSET (NotJsonNames \cap Range(models[1].listing))
    /\ postman = NoPostman
    /\ ValidateIdle

\* the file names of the repeated runs: FileNames and a second file that is
\* already in the 5-part form of the first target
RerunFileNames == FileNames \cup { JsonName(<< TC, ID2, E1, C1c, << "NR" >> >>) }

\* repeated direct calls of rename_files
InitRerun ==
    /\ DiscIdle
    /\ MainIdle
    /\ pc = "rf_entry"
    /\ NormIdle
    /\ MapIdle
    /\ driver = "direct"
    /\ models \in { << r >> : r \in ModelRecords(RerunFileNames, MaxFiles) }
    /\ mi = 1
    /\ Directories
    /\ successful_models = << >>
    /\ failed_models = << >>
    /\ outcomes = << >>
    /\ LocalsIdle
    /\ generate_postman \in BOOLEAN
    /\ not_json = { }
    /\ postman = NoPostman
    /\ ValidateIdle

\* a batch over a list of models
InitBatch ==
    /\ DiscIdle
    /\ MainIdle
    /\ pc = "b_loop"
    /\ NormIdle
    /\ MapIdle
    /\ driver \in { "process_multiple_models", "main" }
    /\ models \in SeqsUpTo(ModelRecords(BatchFileNames, MaxBatchFiles), 1, MaxModels)
    /\ mi = 1
    /\ Directories
    /\ successful_models = << >>
    /\ failed_models = << >>
    /\ outcomes = << >>
    /\ LocalsIdle
    /\ generate_postman \in BOOLEAN
    /\ not_json = { }
    /\ postman = NoPostman
    /\ ValidateIdle

\* the entries the searched directory may hold
TsName(digits, middle, tail) == << "TS", "_" >> \o digits \o << "_" >> \o middle \o << "_" >> \o tail

WgsName(digits, middle, tail) == TsName(digits, middle \o << "_", "WGS", "_", "CSBD" >>, tail)

FolderNames ==
    { WgsName(<< "0", "7" >>, REVENUE, << "rvn011", "_", "00W11", "_", "sur" >>),
      WgsName(<< "7" >>, REVENUE, << "rvn012", "_", "00W12", "_", "sur" >>),
      WgsName(<< "1" >>, REVENUE, << "a", "_", "payloads", "_", "sur" >>),
      WgsName(<< "0", "1" >>, REVENUE, << "rvn001", "_", "00W5", "_", "payloads", "_", "sur" >>),
      WgsName(<< "0", "1" >>, REVENUE, << "rvn001", "_", "00W5", "_", "ayloads", "_", "sur" >>),
      WgsName(<< "0", "2" >>, REVENUE, << "sur", "1", "_", "00W5", "_", "sur" >>),
      WgsName(<< "0", "5" >>, REVENUE, << "Covid", "1", "9", "_", "00W5", "_", "sur" >>),
      WgsName(<< "1", "2", "3", "4" >>, REVENUE, << "a", "_", "b", "_", "sur" >>),
      WgsName(<< "0", "3" >>, SubEdit \o << "5" >>, << "RULEREVE000005", "_", "00W28", "_", "sur" >>),
      WgsName(<< "0", "4" >>, LabPanelModel, << "RULELAB", "_", "00W13", "_", "sur" >>),
      WgsName(<< "0", "4" >>, LabPanelModel, << "00W13", "_", "RULELAB", "_", "sur" >>),
      WgsName(<< "0", "5" >>, Covid, << "RULEEM", "_", "00W17", "_", "sur" >>),
      WgsName(<< "0", "6" >>, Laterality, << "RULELAT", "_", "00W17", "_", "sur" >>),
      WgsName(<< "0", "8" >>, Device, << "RULEDEV", "_", "00W13", "_", "sur" >>),
      WgsName(<< "0", "9" >>, << "Other" >>, << "a", "_", "b", "_", "sur" >>),
      TsName(<< "4", "7" >>, CovidGbdfMcr, << "RULEEM000001", "_", "v04", "_", "sur" >>),
      TsName(<< "4", "8" >>, CovidGbdfMcr, << "a", "_", "b", "_", "c", "_", "sur" >>) }

\* os.scandir order is arbitrary: every arrangement of at most n entries
FolderListings(n) ==
    { l \in SeqsUpTo([name : FolderNames, regression : BOOLEAN], 0, n) :
          \A i, j \in 1..Len(l) : i # j => l[i].name # l[j].name }

\* one call of discover_ts_folders
InitDisc ==
    /\ pc = "d_entry"
    /\ base_dir \in { WGS_CSBD_DIR, GBDF_DIR }
    /\ use_wgs_csbd_destination \in BOOLEAN
    /\ folders \in FolderListings(MaxFolders)
    /\ ts_folders = << >>
    /\ di = 1
    /\ discovered = << >>
    /\ NormIdle
    /\ MapIdle
    /\ RenameIdle
    /\ MainIdle
    /\ PostIdle

\* the command lines: each flag given or not
ArgsSet ==
    [list : BOOLEAN, wgs_csbd : BOOLEAN, gbdf_mcr : BOOLEAN, all : BOOLEAN,
     TS07 : BOOLEAN, TS47 : BOOLEAN, edit_id : BOOLEAN, code : BOOLEAN,
     no_postman : BOOLEAN]

\* the folders of a run of main: one that discovery accepts in each
\* category and one that no grammar matches
MainFolderNames ==
    { WgsName(<< "0", "7" >>, REVENUE, << "rvn011", "_", "00W11", "_", "sur" >>),
      WgsName(<< "0", "1" >>, REVENUE, << "rvn001", "_", "00W5", "_", "payloads", "_", "sur" >>),
      TsName(<< "4", "7" >>, CovidGbdfMcr, << "RULEEM000001", "_", "v04", "_", "sur" >>),
      WgsName(<< "1" >>, REVENUE, << "a", "_", "payloads", "_", "sur" >>) }

\* the files of a discovered folder
MainFileNames == { JsonName(<< TC, ID1, << "deny" >> >>) }

\* the folders of MainFolderNames that no grammar matches and the ones that
\* two of the glob patterns find
MainUnparsed ==
    { WgsName(<< "0", "1" >>, REVENUE, << "rvn001", "_", "00W5", "_", "payloads", "_", "sur" >>) }

MainFoundTwice == { WgsName(<< "1" >>, REVENUE, << "a", "_", "payloads", "_", "sur" >>) }

\* a folder with its regression subdirectory and the files in it; a folder
\* that no grammar matches is never opened and is drawn empty, a folder found
\* twice is drawn with its regression subdirectory
MainFolders ==
    { f \in [name : MainFolderNames, regression : BOOLEAN,
              listing : Listings(MainFileNames, MaxBatchFiles)] :
          /\ f.regression \/ f.listing = << >>
          /\ f.name \in MainUnparsed => ~ f.regression
          /\ f.name \in MainFoundTwice => f.regression }

MainFolderListings(n) ==
    { l \in SeqsUpTo(MainFolders, 0, n) :
          \A i, j \in 1..Len(l) : i # j => l[i].name # l[j].name }

\* one run of main
InitMain ==
    /\ pc = "m_entry"
    /\ args \in ArgsSet
    /\ root_exists \in BOOLEAN
    /\ folders \in (IF root_exists THEN MainFolderListings(MaxFolders) ELSE { << >> })
    /\ models_config = << >>
    /\ exit_code = -1
    /\ runs = 1
    /\ base_dir = << >>
    /\ use_wgs_csbd_destination = FALSE
    /\ ts_folders = << >>
    /\ di = 1
    /\ discovered = << >>
    /\ NormIdle
    /\ MapIdle
    /\ RenameIdle
    /\ generate_postman = ~ args.no_postman
    /\ not_json = { }
    /\ postman = NoPostman
    /\ ValidateIdle

NextNorm == Normalize
NextMap == ApplyMap
NextRename == RenameStep
NextBatch == BatchCall \/ RenameStep \/ BatchRecord \/ BatchCatch \/ BatchEnd

SpecNorm == InitNorm /\ [][NextNorm]_vars
SpecMap == InitMap /\ [][NextMap]_vars
SpecRename == InitRename /\ [][NextRename]_vars
SpecBatch == InitBatch /\ [][NextBatch]_vars
NextDisc == DiscStep
NextRerun == RenameStep \/ Rerun
NextMain ==
    \/ MainStep \/ DiscStep \/ BatchCall \/ RenameStep \/ BatchRecord \/ BatchCatch
    \/ BatchEnd
SpecMain == InitMain /\ [][NextMain]_vars
SpecRerun == InitRerun /\ [][NextRerun]_vars
SpecDisc == InitDisc /\ [][NextDisc]_vars

\* the content of a file that was in the directory before the call
OLD == << "old" >>

\* the files a walked directory may hold
GenFiles ==
    { [name |-> JsonName(<< TC, ID1, E1, C1c, << "LR" >> >>), from |-> OLD],
      [name |-> JsonName(<< TC, ID1, E1, C1c, << "x" >> >>), from |-> OLD],
      [name |-> JsonName(<< TC, ID2, E2, C2c, << "NR" >> >>), from |-> PARTIAL],
      [name |-> JsonName(<< TC, ID1, E1, C1c, << >> >>), from |-> OLD],
      [name |-> << "archive", SEP >> \o JsonName(<< TC, ID1, E1, C1c, << "EX" >> >>), from |-> OLD],
      [name |-> JsonName(<< TC, ID1, E1, << "deny" >> >>), from |-> OLD],
      [name |-> JsonName(<< TC, ID1, E1, C1c, << "x" >>, << "LR" >> >>), from |-> OLD],
      [name |-> JsonName(<< << "readme" >> >>), from |-> OLD],
      [name |-> << "TC", HASH, "01_11111", HASH, "rvn011", HASH, "00W11", HASH, "LR", ".txt" >>,
       from |-> OLD],
      [name |-> << "archive", SEP, "notes", ".txt" >>, from |-> OLD],
      [name |-> << "archive", SEP >> \o JsonName(<< << "readme" >> >>), from |-> OLD],
      [name |-> << "old", " ", "files", SEP >> \o JsonName(<< TC, ID2, E2, C2c, << "NR" >> >>),
       from |-> OLD],
      [name |-> << "TS", "_", "0", "7", "_", "REVENUE", "_", "WGS", "_", "CSBD", "_", "rvn011",
                   "_", "00W11", "_", "dis", SEP, "regression", SEP >>
                \o JsonName(<< TC, ID1, E1, C1c, << "LR" >> >>),
       from |-> OLD],
      [name |-> << "TS", "_", "1", "2", "3", "4", "_", "Lab panel Model", SEP >>
                \o JsonName(<< TC, ID1, E1, C1c, << "LR" >> >>),
       from |-> OLD],
      [name |-> << "archive", SEP >> \o JsonName(<< TC, ID2, E2, C2c, << "NR" >> >>),
       from |-> DIRECTORY],
      [name |-> JsonName(<< TC, ID2, E1, C1c, << "EX" >> >>), from |-> NOT_JSON],
      [name |-> << "old", " ", "files", SEP >> \o JsonName(<< TC, ID1, E1, C1c, << "LR" >> >>),
       from |-> NOT_JSON],
      [name |-> << "empty" >>, from |-> DIRECTORY] }

\* directories of at most n files
DirsUpTo(S, n) == { d \in SUBSET S : Cardinality(d) <= n }

\* one generator made for a directory and asked for its collection
InitGen ==
    /\ pc = "g_init"
    /\ driver = "generator"
    /\ models = << [edit_id |-> E1, code |-> C1c, listing |-> << >>] >>
    /\ mi = 1
    /\ srcExists = << FALSE >>
    /\ src = << { } >>
    /\ dstExists \in [{ 1 } -> BOOLEAN]
    /\ dst \in { << d >> : d \in DirsUpTo(GenFiles, MaxGenFiles) }
    /\ dstExists[1] \/ dst[1] = { }
    /\ successful_models = << >>
    /\ failed_models = << >>
    /\ outcomes = << >>
    /\ LocalsIdle
    /\ PostIdle
    /\ NormIdle
    /\ MapIdle
    /\ DiscIdle
    /\ MainIdle

NextGen == GenStep
SpecGen == InitGen /\ [][NextGen]_vars

\* the documents a collection file may hold
DocKeys == { "info", "item", "version", "name", "type", "items" }

ListLengths == -1..MaxRequests

Documents ==
    { d \in [kind : { "dict" }, keys : SUBSET DocKeys, item : ListLengths, items : ListLengths] :
          /\ ("item" \notin d.keys => d.item = -1)
          /\ ("items" \notin d.keys => d.items = -1) }
    \cup [kind : { "list" }, keys : SUBSET DocKeys, item : { -1 }, items : { -1 }]
    \cup { d \in [kind : { "str" }, keys : SUBSET DocKeys, item : { -1 }, items : { -1 }] :
             "items" \in d.keys => "item" \in d.keys }
    \cup [kind : { "scalar", "notjson", "unreadable" }, keys : { { } }, item : { -1 }, items : { -1 }]

\* one call of validate_collection
InitValidate ==
    /\ pc = "v_entry"
    /\ collection \in Documents
    /\ validation_result = NoValidation
    /\ generate_postman = FALSE
    /\ not_json = { }
    /\ postman = NoPostman
    /\ NormIdle
    /\ MapIdle
    /\ RenameIdle
    /\ DiscIdle
    /\ MainIdle

NextValidate == Validate
SpecValidate == InitValidate /\ [][NextValidate]_vars

\* what dest_dir may hold before the call: files of an earlier run, one of
\* them under the name this run gives a file, one in a subdirectory, a file
\* that is no test case, and a directory under the name this run gives a
\* file
ExistingFiles ==
    { [name |-> JsonName(<< TC, ID2, E1, C1c, << "NR" >> >>), from |-> OLD],
      [name |-> JsonName(<< TC, ID1, E1, C1c, << "LR" >> >>), from |-> OLD],
      [name |-> << "archive", SEP >> \o JsonName(<< TC, ID1, E1, C1c, << "EX" >> >>), from |-> OLD],
      [name |-> JsonName(<< << "readme" >> >>), from |-> OLD],
      [name |-> JsonName(<< TC, ID1, E1, C1c, << "LR" >> >>), from |-> DIRECTORY] }

\* one direct call of rename_files whose dest_dir is not empty
InitPostman ==
    /\ DiscIdle
    /\ MainIdle
    /\ pc = "rf_entry"
    /\ NormIdle
    /\ MapIdle
    /\ driver = "direct"
    /\ models \in { << r >> : r \in ModelRecords(FileNames, MaxFiles) }
    /\ mi = 1
    /\ srcExists \in [{ 1 } -> BOOLEAN]
    /\ srcExists[1] \/ models[1].listing = << >>
    /\ src = << Range(models[1].listing) >>
    /\ dst \in { << d >> : d \in DirsUpTo(ExistingFiles, MaxExisting) }
    /\ \A e1, e2 \in dst[1] : e1.name = e2.name => e1 = e2
    /\ dstExists \in [{ 1 } -> BOOLEAN]
    /\ dstExists[1] \/ dst[1] = { }
    /\ successful_models = << >>
    /\ failed_models = << >>
    /\ outcomes = << >>
    /\ LocalsIdle
    /\ generate_postman \in BOOLEAN
    /\ not_json = { }
    /\ postman = NoPostman
    /\ ValidateIdle

NextPostman == RenameStep
SpecPostman == InitPostman /\ [][NextPostman]_vars

Init == InitRename
Next == NextRename
Spec == SpecRename

\* ------------------------------------------------------------------------
\* Vocabulary of the properties
\* ------------------------------------------------------------------------
\* the fixed table of the suffix mapper as the specification words it
TableSuffix(t) ==
    CASE t = << "deny" >> -> << "LR" >>
      [] t = << "bypass" >> -> << "NR" >>
      [] t = << "market" >> -> << "EX" >>
      [] t = << "date" >> -> << "EX" >>
      [] OTHER -> t

\* a piece "suffix.json" without its extension
Stem(piece) == SubSeq(piece, 1, Len(piece) - 1)

SegCount(f) == Len(Split(f, HASH))

\* an exception was reported for file f of model m
Errored(m, f) == << "error", m, f >> \in log

\* some file of model m had an exception
AnyError(m) == \E e \in log : e[1] = "error" /\ e[2] = m

\* dest_dir of model m holds a copy made from source file f
CopiedFrom(m, f) == \E e \in dst[m] : e.from = f

\* the path under dest_dir of model m at which shutil.copy2 writes source
\* file f: the new name, or the old name inside the directory of the new
\* name when dest_dir holds one (no step makes or removes a directory)
WrittenAt(m, f) ==
    CopyPath(dst[m], NewNameOf(f, models[m].edit_id, models[m].code), f)

\* a file is at the path at which the copy of f is written
FileAt(m, f) == \E e \in TreeFiles(dst[m]) : e.name = WrittenAt(m, f)

\* the whole copy of f is at the path at which it is written
CopyInPlace(m, f) == [name |-> WrittenAt(m, f), from |-> f] \in dst[m]

Returned == pc = "rf_returned" /\ ret.kind = "list"

Target(m) == << models[m].edit_id, models[m].code >>

\* ------------------------------------------------------------------------
\* C1
\* ------------------------------------------------------------------------
\* C1: normalize_ts_number writes a value of 1..99 with exactly two digits and
\* a value of 100..999 with exactly three, returns any other input unchanged,
\* and so gives "07" for "7", "07" and "007" alike.
C1_NormalizeWidth ==
    pc = "norm_done" =>
        LET n == IntOf(ts_number_raw) IN
        /\ (n \in 1..99 => Len(ts_number) = 2 /\ IntOf(ts_number) = n)
        /\ (n \in 100..999 => Len(ts_number) = 3 /\ IntOf(ts_number) = n)
        /\ (n \notin 1..999 => ts_number = ts_number_raw)
        /\ (ts_number_raw \in { << "7" >>, << "0", "7" >>, << "0", "0", "7" >> }
               => ts_number = << "0", "7" >>)

C1_Witness ==
    pc = "norm_done" /\ ts_number_raw = << "0", "0", "7" >> /\ ts_number = << "0", "7" >>

\* ------------------------------------------------------------------------
\* C2
\* ------------------------------------------------------------------------
\* C2: once a 3-segment or 4-segment file is copied, the file written to
\* dest_dir has the name made of the file's prefix and tc_id, the target
\* model's edit_id and code, and the mapped suffix followed by .json, joined
\* by '#', and this name has exactly five '#'-separated segments, the third
\* and fourth being the target's edit_id and code.
C2_CanonicalName ==
    (pc = "rf_remove" /\ SegCount(filename) \in { 3, 4 }) =>
        LET q == Split(new_filename, HASH) IN
        /\ new_filename = JsonName(<< parts[1], parts[2], Cur.edit_id, Cur.code,
                                      TableSuffix(Stem(parts[Len(parts)])) >>)
        /\ [name |-> new_filename, from |-> filename] \in dst[mi]
        /\ Len(q) = 5
        /\ q[1] = parts[1]
        /\ q[2] = parts[2]
        /\ q[3] = Cur.edit_id
        /\ q[4] = Cur.code
        /\ q[5] = TableSuffix(Stem(parts[Len(parts)])) \o << JSON >>

\* ------------------------------------------------------------------------
\* C3
\* ------------------------------------------------------------------------
\* C3 as stated: the edit_code embedded in a 4-segment file name is the one
\* found in the renamed file.
C3_EmbeddedEditKept ==
    (pc = "rf_remove" /\ SegCount(filename) = 4) =>
        Split(new_filename, HASH)[3] = parts[3]

\* C3 amended: a 4-segment file is renamed whatever edit_code its name embeds
\* (no mismatch is ever reported for it), and the renamed file carries the
\* target model's edit_id and code, not the embedded edit_code.
C3_EmbeddedEditReplaced ==
    /\ \A e \in log : e[1] = "mismatch" => SegCount(e[3]) # 4
    /\ (pc = "rf_remove" /\ SegCount(filename) = 4) =>
           LET head == parts[1] \o << HASH >> \o parts[2] \o << HASH >>
                          \o Cur.edit_id \o << HASH >> \o Cur.code \o << HASH >>
           IN  /\ Len(new_filename) > Len(head)
               /\ SubSeq(new_filename, 1, Len(head)) = head

C3_Witness ==
    /\ pc = "rf_remove"
    /\ SegCount(filename) = 4
    /\ parts[3] = E2
    /\ Cur.edit_id = E1
    /\ Split(new_filename, HASH)[3] = E1

\* ------------------------------------------------------------------------
\* C4
\* ------------------------------------------------------------------------
\* C4: a 5-segment file whose embedded edit or code differs from the target
\* stays in the source directory, is never copied and never listed in the
\* result, and is reported as a mismatch once passed; a 5-segment file with
\* both codes equal to the target's is, when rename_files returns and no
\* exception hit it, in dest_dir under its unchanged name (a file is at the
\* path the copy writes, and its base name is the name it had), gone from
\* the source and listed in the result.
C4_FiveSegment ==
    \A m \in 1..Len(models) : \A f \in Range(models[m].listing) :
        (EndsWith(f, JSON) /\ SegCount(f) = 5) =>
            LET q == Split(f, HASH)
                same == q[3] = models[m].edit_id /\ q[4] = models[m].code
            IN
            /\ ~ same =>
                  /\ f \in src[m]
                  /\ ~ CopiedFrom(m, f)
                  /\ ~ Errored(m, f)
                  /\ (m = mi => f \notin Range(renamed_files))
                  /\ (m = mi /\ Returned => << "mismatch", m, f >> \in log)
            /\ (same /\ m = mi /\ Returned /\ ~ Errored(m, f)) =>
                  /\ f \notin src[m]
                  /\ f \in Names(dst[m])
                  /\ FileAt(m, f)
                  /\ Basename(WrittenAt(m, f)) = f
                  /\ f \in Range(ret.files)
                  /\ << "mismatch", m, f >> \notin log

C4_Witness ==
    /\ Returned
    /\ Target(mi) = << E1, C1c >>
    /\ json_files = << JsonName(<< TC, ID1, E1, C2c, << "NR" >> >>),
                       JsonName(<< TC, ID1, E1, C1c, << "LR" >> >>) >>
    /\ ret.files = << JsonName(<< TC, ID1, E1, C1c, << "LR" >> >>) >>
    /\ src[mi] = { JsonName(<< TC, ID1, E1, C2c, << "NR" >> >>) }

\* ------------------------------------------------------------------------
\* C5
\* ------------------------------------------------------------------------
\* every file of the listing has been dealt with: moved, reported as failed,
\* or reported as skipped
AllHandled(m) ==
    \A i \in 1..Len(json_files) :
        LET g == json_files[i] IN
        \/ g \notin src[m] /\ CopiedFrom(m, g)
        \/ g \notin src[m] /\ NewNameOf(g, models[m].edit_id, models[m].code) \in Names(dst[m])
        \/ Errored(m, g)
        \/ << "mismatch", m, g >> \in log
        \/ << "format", m, g >> \in log

\* C5: a .json file whose name has a number of segments other than 3, 4 or 5
\* is never copied, deleted or listed in the result; it is reported, and the
\* loop still handles every other file of the directory.
C5_Unrecognized ==
    \A m \in 1..Len(models) : \A f \in Range(models[m].listing) :
        (EndsWith(f, JSON) /\ SegCount(f) \notin { 3, 4, 5 }) =>
            /\ f \in src[m]
            /\ ~ CopiedFrom(m, f)
            /\ ~ Errored(m, f)
            /\ (m = mi => f \notin Range(renamed_files))
            /\ (m = mi /\ Returned) =>
                  /\ << "format", m, f >> \in log
                  /\ fi = Len(json_files) + 1
                  /\ AllHandled(m)

C5_Witness ==
    /\ Returned
    /\ Len(json_files) = 2
    /\ SegCount(json_files[1]) = 6
    /\ << "format", mi, json_files[1] >> \in log
    /\ json_files[1] \in src[mi]
    /\ SegCount(json_files[2]) = 3
    /\ json_files[2] \notin src[mi]
    /\ Len(ret.files) = 1

\* ------------------------------------------------------------------------
\* C6
\* ------------------------------------------------------------------------
\* C6: the suffix mapper sends deny to LR, bypass to NR, market and date to EX
\* and returns every other token unchanged; applied to its own result it
\* returns that result.
C6_SuffixTable ==
    /\ Len(mapped_hist) >= 1 => mapped_hist[1] = TableSuffix(suffix)
    /\ Len(mapped_hist) >= 2 => mapped_hist[2] = mapped_hist[1]

C6_Witness ==
    suffix = << "date" >> /\ mapped_hist = << << "EX" >>, << "EX" >> >>

\* ------------------------------------------------------------------------
\* C7
\* ------------------------------------------------------------------------
\* every accepted file of model m is in dest_dir under its new name (the
\* file of that name is the copy of it), gone from source_dir, and its new
\* name is in the returned list
AllAcceptedMoved(m) ==
    \A f \in Range(models[m].listing) :
        (EndsWith(f, JSON) /\ Accepted(f, models[m].edit_id, models[m].code)) =>
            LET n == NewNameOf(f, models[m].edit_id, models[m].code) IN
            /\ [name |-> n, from |-> f] \in dst[m]
            /\ f \notin src[m]
            /\ ret.kind = "list"
            /\ n \in Range(ret.files)

\* C7: when no file operation failed, after rename_files returns dest_dir
\* exists, every accepted file is in dest_dir under its new name and gone
\* from source_dir, and the result set holds the new name of each.
C7_MovedAndDestExists ==
    (pc = "rf_returned" /\ ~ AnyError(mi)) =>
        /\ dstExists[mi]
        /\ AllAcceptedMoved(mi)

\* ------------------------------------------------------------------------
\* C8
\* ------------------------------------------------------------------------
\* every file of every listing is in its source directory, or its copy is
\* in the destination directory
NeverInNeither ==
    \A m \in 1..Len(models) : \A f \in Range(models[m].listing) :
        \/ f \in src[m]
        \/ CopiedFrom(m, f)

\* a step that deletes a source file deletes the file whose copy is in place
DeleteAfterCopy ==
    src' # src =>
        /\ pc = "rf_remove"
        /\ CopyInPlace(mi, filename)
        /\ src' = SrcWith(src[mi] \ { filename })

\* a step that reports an exception deletes nothing
FailureKeepsSource == log' # log => src' = src

\* C8: the original is deleted only when its copy is in dest_dir; in every
\* state, also between the two steps and after a crash, a file is in the
\* source directory, in the destination directory, or in both, and never in
\* neither; a failed copy leaves the source file in place.
C8_CopyThenDelete ==
    [] NeverInNeither /\ [][DeleteAfterCopy /\ FailureKeepsSource]_vars

\* ------------------------------------------------------------------------
\* C9
\* ------------------------------------------------------------------------
\* the step in which an exception of a file is reported appends nothing to
\* the result and goes on with the next file
CaughtPerFile ==
    (\E e \in log' \ log : e[1] = "error") =>
        /\ renamed_files' = renamed_files
        /\ fi' = fi + 1
        /\ pc' = "rf_loop"

\* the files of the listing that reach a copy and had no exception
CleanAccepted(m) ==
    { i \in 1..Len(json_files) :
        /\ Accepted(json_files[i], models[m].edit_id, models[m].code)
        /\ ~ Errored(m, json_files[i]) }

\* whatever happened to the other files, a file without an exception of its
\* own got its usual treatment
OthersUnaffected ==
    Returned =>
        /\ fi = Len(json_files) + 1
        /\ Len(ret.files) = Cardinality(CleanAccepted(mi))
        /\ \A i \in 1..Len(json_files) :
              LET g == json_files[i] IN
              ~ Errored(mi, g) =>
                  IF i \in CleanAccepted(mi)
                  THEN /\ g \notin src[mi]
                       /\ NewNameOf(g, Cur.edit_id, Cur.code) \in Range(ret.files)
                       /\ NewNameOf(g, Cur.edit_id, Cur.code) \in Names(dst[mi])
                       /\ FileAt(mi, g)
                  ELSE /\ g \in src[mi]
                       /\ ~ CopiedFrom(mi, g)

\* no exception leaves rename_files once the loop over the files has begun
NoEscapeFromLoop == pc = "rf_raised" => json_files = << >>

\* C9: an exception while copying or deleting one file is caught for that
\* file: nothing is appended to the result for it, and every other file of
\* the listing is processed as it would have been without the failure.
C9_PerFileContainment ==
    [] (OthersUnaffected /\ NoEscapeFromLoop) /\ [][CaughtPerFile]_vars

C9_Witness ==
    /\ Returned
    /\ Len(json_files) = 2
    /\ Errored(mi, json_files[1])
    /\ ~ Errored(mi, json_files[2])
    /\ json_files[2] \notin src[mi]
    /\ Len(ret.files) = 1

\* ------------------------------------------------------------------------
\* C10
\* ------------------------------------------------------------------------
\* an exception that left rename_files is followed by the next iteration
NextModelAfterRaise ==
    pc = "rf_raised" => pc' = "b_loop" /\ mi' = mi + 1

\* C10: in both batch drivers an exception escaping rename_files for one
\* model ends that model only: the loop goes on with the next model, the
\* batch never ends with an error, and when it ends every model of the list
\* has had its call of rename_files.
C10_BatchContinues ==
    /\ [] (pc # "b_aborted")
    /\ [] (pc = "b_done" => Len(outcomes) = Len(models))
    /\ [][NextModelAfterRaise]_vars

C10_Witness ==
    /\ pc = "b_done"
    /\ driver = "main"
    /\ Len(models) = 2
    /\ outcomes = << "raise", "list" >>
    /\ Len(successful_models) = 1
    /\ src[2] = { }

\* ------------------------------------------------------------------------
\* Vocabulary of the discovery properties
\* ------------------------------------------------------------------------
DiscReturned == pc = "d_returned"

\* the positions of the candidate list the loop has gone past
Examined == 1..(di - 1)

\* a warning of the given kind was printed for candidate i
Warned(kind, i) == << kind, i, ts_folders[i] >> \in log

\* the list holds a descriptor made for the folder name
Described(name) == \E k \in 1..Len(discovered) : discovered[k].folder_name = name

\* the folder name satisfies grammar g and no grammar before g
FirstGrammar(name, g) ==
    LET G == Grammars(IsGbdf(base_dir)) IN
    /\ g \in 1..Len(G)
    /\ re_match(G[g], name) # NoMatch
    /\ \A h \in 1..(g - 1) : re_match(G[h], name) = NoMatch

Parses(name) == \E g \in 1..Len(Grammars(IsGbdf(base_dir))) : FirstGrammar(name, g)

\* the component of dest_dir that holds the rewritten folder name
DestFolderOf(d) == d.dest_dir[Len(d.dest_dir) - 1]

\* s ends with the text t
EndsWithText(s, t) == Len(s) >= Len(t) /\ SubSeq(s, Len(s) - Len(t) + 1, Len(s)) = t

\* s with its ending t replaced by u
RewriteEnd(s, t, u) == SubSeq(s, 1, Len(s) - Len(t)) \o u

\* ------------------------------------------------------------------------
\* C11
\* ------------------------------------------------------------------------
\* every descriptor carries the groups of the first grammar, in the order of
\* the code, that its folder name satisfies
GroupsOfFirstGrammar ==
    \A k \in 1..Len(discovered) :
        \E g \in 1..Len(Grammars(IsGbdf(base_dir))) :
            /\ FirstGrammar(discovered[k].folder_name, g)
            /\ << discovered[k].ts_number_raw, discovered[k].edit_id, discovered[k].code >>
                   = re_match(Grammars(IsGbdf(base_dir))[g], discovered[k].folder_name)

\* two descriptors of one folder name agree on what was extracted
SameNameSameGroups ==
    \A k, l \in 1..Len(discovered) :
        discovered[k].folder_name = discovered[l].folder_name
            => /\ discovered[k].ts_number = discovered[l].ts_number
               /\ discovered[k].edit_id = discovered[l].edit_id
               /\ discovered[k].code = discovered[l].code

\* a candidate no grammar matches gives a warning and no descriptor
UnparsedOnlyWarned ==
    \A i \in Examined :
        ~ Parses(ts_folders[i])
            => Warned("noparse", i) /\ ~ Described(ts_folders[i])

\* when the function returns every candidate has been examined, and each
\* one gave either a descriptor or a warning
AllCandidatesExamined ==
    DiscReturned =>
        /\ di = Len(ts_folders) + 1
        /\ Len(discovered) + Cardinality(log) = Len(ts_folders)

\* C11: discover_ts_folders tries its grammars in one fixed order and takes
\* the first that matches, so what is extracted from a folder name is a
\* function of the name; a candidate matched by no grammar gives a warning
\* and no model, and the remaining candidates are still examined.
C11_GrammarOrder ==
    /\ GroupsOfFirstGrammar
    /\ SameNameSameGroups
    /\ UnparsedOnlyWarned
    /\ AllCandidatesExamined

C11_Witness ==
    /\ DiscReturned
    /\ Len(ts_folders) = 2
    /\ ~ Parses(ts_folders[1])
    /\ Warned("noparse", 1)
    /\ Len(discovered) = 1
    /\ discovered[1].folder_name = ts_folders[2]
    /\ FirstGrammar(ts_folders[2], 5)

\* ------------------------------------------------------------------------
\* C12
\* ------------------------------------------------------------------------
\* os.path.exists(regression_path) for candidate i
RegressionAt(i) ==
    \E f \in 1..Len(folders) : folders[f].name = ts_folders[i] /\ folders[f].regression

\* C12: a folder whose name matches a grammar but which has no regression
\* subdirectory gives a warning and no model, and the folders after it are
\* still discovered.
C12_NoRegressionSkipped ==
    /\ \A i \in Examined :
           Parses(ts_folders[i]) /\ ~ RegressionAt(i)
               => Warned("noregression", i) /\ ~ Described(ts_folders[i])
    /\ DiscReturned =>
           \A i \in 1..Len(ts_folders) :
               Parses(ts_folders[i]) /\ RegressionAt(i) => Described(ts_folders[i])

C12_Witness ==
    /\ DiscReturned
    /\ Len(ts_folders) = 2
    /\ Parses(ts_folders[1])
    /\ ~ RegressionAt(1)
    /\ Warned("noregression", 1)
    /\ Len(discovered) = 1
    /\ discovered[1].folder_name = ts_folders[2]

\* ------------------------------------------------------------------------
\* C13
\* ------------------------------------------------------------------------
\* the folder name with only its trailing segment rewritten
TrailingRewrite(name) ==
    IF EndsWithText(name, PAYLOADS_SUR) THEN RewriteEnd(name, PAYLOADS_SUR, PAYLOADS_DIS)
    ELSE IF EndsWithText(name, AYLOADS_SUR) THEN RewriteEnd(name, AYLOADS_SUR, PAYLOADS_DIS)
    ELSE IF EndsWithText(name, SUR) THEN RewriteEnd(name, SUR, DIS)
    ELSE name

\* C13: the destination folder name of a discovered model is the source
\* folder name with only its trailing segment rewritten (_payloads_sur to
\* _payloads_dis, else _ayloads_sur to _payloads_dis, else _sur to _dis, else
\* unchanged); no other part of the name is altered.
C13_TrailingSegmentOnly ==
    \A k \in 1..Len(discovered) :
        DestFolderOf(discovered[k]) = TrailingRewrite(discovered[k].folder_name)

\* ------------------------------------------------------------------------
\* C14
\* ------------------------------------------------------------------------
\* TS_<n>_REVENUE_WGS_CSBD_<edit>_<code> followed by the given ending
PayloadsShape(ending) ==
    << "TS", "_", D13, "_", "REVENUE", "_", "WGS", "_", "CSBD", "_", TOK, "_", TOK >> \o ending

\* the groups (n, edit, code) of a name of the payloads shape, or NoMatch
PayloadsGroups(name) ==
    IF re_match(PayloadsShape(PAYLOADS_SUR), name) # NoMatch
    THEN re_match(PayloadsShape(PAYLOADS_SUR), name)
    ELSE re_match(PayloadsShape(AYLOADS_SUR), name)

\* C14: a WGS_CSBD folder TS_<n>_REVENUE_WGS_CSBD_<edit>_<code>_payloads_sur
\* (or ending in _ayloads_sur) that has a regression subdirectory is
\* discovered with edit_id = <edit> and code = <code>, and its destination
\* folder name ends in _payloads_dis.
C14_PayloadsDiscovered ==
    DiscReturned /\ ~ IsGbdf(base_dir) =>
        \A f \in 1..Len(folders) :
            PayloadsGroups(folders[f].name) # NoMatch /\ folders[f].regression
                => \E k \in 1..Len(discovered) :
                       /\ discovered[k].folder_name = folders[f].name
                       /\ discovered[k].edit_id = PayloadsGroups(folders[f].name)[2]
                       /\ discovered[k].code = PayloadsGroups(folders[f].name)[3]
                       /\ EndsWithText(DestFolderOf(discovered[k]), PAYLOADS_DIS)

\* ------------------------------------------------------------------------
\* C15
\* ------------------------------------------------------------------------
\* the destination root the flags select
RootByFlags ==
    IF base_dir = GBDF_DIR THEN << << "renaming_jsons" >>, << "GBDF" >> >>
    ELSE IF use_wgs_csbd_destination THEN << << "renaming_jsons" >>, << "WGS", "_", "CSBD" >> >>
    ELSE << << "renaming_jsons" >> >>

\* C15: the destination root of a discovered model is chosen by the flags
\* only: renaming_jsons/GBDF for the GBDF category set whatever the
\* destination flag, renaming_jsons/WGS_CSBD when only the destination flag
\* is set, renaming_jsons otherwise; dest_dir is the root, the rewritten
\* folder name and regression.
C15_DestinationRoot ==
    \A k \in 1..Len(discovered) :
        discovered[k].dest_dir =
            RootByFlags \o << DestFolderName(discovered[k].folder_name), << "regression" >> >>

C15_Witness ==
    /\ DiscReturned
    /\ base_dir = GBDF_DIR
    /\ use_wgs_csbd_destination
    /\ Len(discovered) = 1
    /\ SubSeq(discovered[1].dest_dir, 1, 2) = << << "renaming_jsons" >>, << "GBDF" >> >>
    /\ Len(discovered[1].dest_dir) = 4

\* ------------------------------------------------------------------------
\* C16
\* ------------------------------------------------------------------------
\* C16: a GBDF folder TS_<n>_Covid_gbdf_mcr_<edit>_<code>_sur is classified
\* as Covid_gbdf_mcr: its collection is TS_<n>_Covid_gbdf_mcr_Collection and
\* its collection file covid_gbdf_mcr_<edit>_<code lower-cased>.json, not the
\* names of the generic Covid category.
C16_MostSpecificCategory ==
    \A k \in 1..Len(discovered) :
        re_match(GbdfGrammar, discovered[k].folder_name) # NoMatch
            => /\ discovered[k].postman_collection_name =
                      << "TS", "_" >> \o discovered[k].ts_number
                      \o << "_", "Covid", "_", "gbdf", "_", "mcr", "_", "Collection" >>
               /\ discovered[k].postman_file_name =
                      << "covid", "_", "gbdf", "_", "mcr", "_" >> \o discovered[k].edit_id
                      \o << "_" >> \o Lower(discovered[k].code) \o << JSON >>

\* ------------------------------------------------------------------------
\* C17
\* ------------------------------------------------------------------------
\* C17: discover_ts_folders returns at most one descriptor per folder: no
\* folder appears twice in the returned list.
C17_OneDescriptorPerFolder ==
    \A k, l \in 1..Len(discovered) :
        discovered[k].source_dir = discovered[l].source_dir => k = l

\* ------------------------------------------------------------------------
\* C18
\* ------------------------------------------------------------------------
\* the source directory held, before the first run, only files in the 5-part
\* form that carry the edit id and the code of the model
OnlyMigrated ==
    \A f \in Range(models[1].listing) :
        /\ EndsWith(f, JSON)
        /\ SegCount(f) = 5
        /\ Split(f, HASH)[3] = models[1].edit_id
        /\ Split(f, HASH)[4] = models[1].code

\* no file operation has failed and the process was not killed
NoFailure == ~ AnyError(1) /\ pc \notin { "rf_raised", "crashed" }

FirstRunMovesAll ==
    OnlyMigrated /\ NoFailure /\ Returned /\ runs = 1 =>
        /\ src[1] = { }
        /\ TreeFiles(dst[1]) =
               { [name |-> IF IsDirectory(dst[1], f) THEN f \o << SEP >> \o f ELSE f,
                  from |-> f] : f \in Range(models[1].listing) }
        /\ ret.files = models[1].listing

\* a repeated run returns an empty result
RepeatedRunEmpty ==
    OnlyMigrated /\ NoFailure /\ Returned /\ runs >= 2 => ret.files = << >>

\* a repeated run copies nothing and deletes nothing
RepeatedRunNoMove ==
    OnlyMigrated /\ ~ AnyError(1) /\ runs >= 2 => UNCHANGED << src, dst >>

Exited == pc = "m_exited"

\* the three dispatches of main, in the order the code decides them
ListDispatch == args.list
CustomDispatch == ~ args.list /\ args.edit_id /\ args.code
ModelDispatch == ~ args.list /\ ~ (args.edit_id /\ args.code)

\* neither a TS flag nor --all is given
NoModelSelected == ~ args.TS07 /\ ~ args.TS47 /\ ~ args.all

\* a TS flag or --all is given without its category flag
FlagWithoutCategory ==
    \/ args.TS07 /\ ~ args.wgs_csbd
    \/ args.TS47 /\ ~ args.gbdf_mcr
    \/ args.all /\ ~ args.wgs_csbd /\ ~ args.gbdf_mcr

\* the loaded list holds a model with the TS number ts
Loaded(ts) == \E i \in 1..Len(models_config) : models_config[i].ts_number = ts

\* a TS flag names a model that the loaded list does not hold
NamedModelMissing ==
    \/ args.TS07 /\ ~ Loaded(<< "0", "7" >>)
    \/ args.TS47 /\ ~ Loaded(<< "4", "7" >>)

\* the static list of the category the command line asks for
StaticOfCategory == IF args.gbdf_mcr THEN StaticGbdf ELSE StaticWgsCsbd

\* ------------------------------------------------------------------------
\* C19
\* ------------------------------------------------------------------------
\* the statement as given: without the source root a run that is asked to
\* process files ends with a non-zero exit code
C19_MissingRootAborts ==
    Exited /\ ~ root_exists /\ ~ ListDispatch => exit_code # 0

\* without the source root the configuration is the static list
MissingRootFallsBack ==
    ~ root_exists /\ pc \notin { "m_entry", "d_entry", "d_loop", "d_returned" }
        => discovered = << >> /\ models_config = StaticOfCategory

\* without the source root every call of rename_files of the model loop
\* returns None and no file is written
MissingRootMovesNothing ==
    ~ root_exists /\ driver = "main" =>
        /\ \A i \in 1..Len(outcomes) : outcomes[i] = "None"
        /\ successful_models = << >>
        /\ \A m \in 1..Len(dst) : dst[m] = { }

\* without the source root a selection that the static list satisfies ends
\* with exit code 0
MissingRootExitsZero ==
    Exited /\ ~ root_exists /\ ModelDispatch /\ ~ NoModelSelected
    /\ ~ FlagWithoutCategory /\ ~ NamedModelMissing
        => exit_code = 0 /\ Len(outcomes) = Len(models) /\ Len(models) >= 1

\* C19 (amended): when the source root directory does not exist the run is
\* not aborted for that reason: discovery finds nothing, get_models_config
\* falls back to the static list, every call of rename_files for a selected
\* model returns without moving a file, and main ends with exit code 0.
C19_MissingRootFallsBackAndExitsZero ==
    MissingRootFallsBack /\ MissingRootMovesNothing /\ MissingRootExitsZero

C19_Witness ==
    /\ Exited
    /\ ~ root_exists
    /\ args.wgs_csbd /\ args.TS07 /\ ~ args.all /\ ~ args.TS47
    /\ models_config = StaticWgsCsbd
    /\ outcomes = << "None" >>
    /\ exit_code = 0

\* ------------------------------------------------------------------------
\* C20
\* ------------------------------------------------------------------------
\* the cases of exit code 1
ExitOneCase ==
    \/ CustomDispatch /\ ret.kind = "raise"
    \/ ModelDispatch /\ (NoModelSelected \/ FlagWithoutCategory \/ NamedModelMissing)

\* C20: main exits with code 1 exactly when no model is selected, a TS flag
\* or --all is given without its category flag, a TS flag names a model that
\* is not in the loaded list, or the custom call raises; every other
\* dispatch, --list and a run that processed no file included, exits with 0.
C20_ExitCodes ==
    Exited => /\ exit_code \in { 0, 1 }
              /\ exit_code = 1 <=> ExitOneCase

C20_Witness ==
    /\ Exited
    /\ CustomDispatch
    /\ ret.kind = "raise"
    /\ exit_code = 1
    /\ args.wgs_csbd /\ args.TS07

\* ------------------------------------------------------------------------
\* C21
\* ------------------------------------------------------------------------
RECURSIVE FillFrom(_, _, _, _, _)
\* the template of the grammar p written out from element i on: each
\* capturing group takes the next of the values, the digits the grammar does
\* not capture are those of the name s, every other element is its own text
FillFrom(p, s, i, j, values) ==
    IF i > Len(p) THEN << >>
    ELSE IF p[i] \in { D13, DPLUS, TOK }
         THEN LET class == IF p[i] = TOK THEN AlnumAtoms(s) ELSE { DigitChars[d] : d \in 1..10 }
                  n == ClassRun(s, j, class)
              IN  IF p[i] = DPLUS
                  THEN SubSeq(s, j, j + n - 1) \o FillFrom(p, s, i + 1, j + n, values)
                  ELSE Head(values) \o FillFrom(p, s, i + 1, j + n, Tail(values))
         ELSE << p[i] >> \o FillFrom(p, s, i + 1, j + 1, values)

\* the folder name a descriptor gives back through the grammar g
Rebuilt(d, g) ==
    FillFrom(Grammars(IsGbdf(base_dir))[g], d.folder_name, 1, 1,
             << d.ts_number, d.edit_id, d.code >>)

\* the descriptor the loop body makes of a name the grammar g matches
DescriptorOf(name, g) ==
    ModelConfig(base_dir, use_wgs_csbd_destination, name,
                re_match(Grammars(IsGbdf(base_dir))[g], name))

\* C21: for every folder name a grammar matched, writing the extracted
\* normalized ts_number, edit_id and code back into that grammar's template
\* gives a name the same grammar matches and from which the same ts_number,
\* edit_id and code are extracted again.
C21_RoundTrip ==
    \A k \in 1..Len(discovered) :
        \A g \in 1..Len(Grammars(IsGbdf(base_dir))) :
            FirstGrammar(discovered[k].folder_name, g) =>
                LET d == discovered[k]
                    back == Rebuilt(d, g)
                IN  /\ re_match(Grammars(IsGbdf(base_dir))[g], back) # NoMatch
                    /\ DescriptorOf(back, g).ts_number = d.ts_number
                    /\ DescriptorOf(back, g).edit_id = d.edit_id
                    /\ DescriptorOf(back, g).code = d.code

C21_Witness ==
    /\ DiscReturned
    /\ \E k \in 1..Len(discovered) :
          /\ discovered[k].ts_number_raw = << "7" >>
          /\ discovered[k].ts_number = << "0", "7" >>
          /\ discovered[k].edit_id # discovered[k].code
          /\ FirstGrammar(discovered[k].folder_name, 1)
          /\ Rebuilt(discovered[k], 1) # discovered[k].folder_name
          /\ re_match(WgsGrammars[1], Rebuilt(discovered[k], 1))
                 = << << "0", "7" >>, discovered[k].edit_id, discovered[k].code >>

\* ------------------------------------------------------------------------
\* C22
\* ------------------------------------------------------------------------
\* C22: normalize_ts_number returns an input written with two or three
\* digits unchanged ("01", "001", "10" and "100" stay as they are); only a
\* single digit such as "1" is padded.
C22_TwoOrThreeDigitsUnchanged ==
    pc = "norm_done" =>
        /\ (Len(ts_number_raw) \in { 2, 3 } => ts_number = ts_number_raw)
        /\ (ts_number_raw = << "1" >> => ts_number = << "0", "1" >>)

\* ------------------------------------------------------------------------
\* C25
\* ------------------------------------------------------------------------
\* the call of rename_files for the model at hand has ended
CallEnded == pc \in { "rf_returned", "rf_raised" }

\* the call returned a list with at least one name
NonEmptyResult == pc = "rf_returned" /\ ret.kind = "list" /\ ret.files # << >>

\* the step after the call puts the model in exactly one list, by its result,
\* and goes on with the next model
RecordedInOneList ==
    (driver = "process_multiple_models" /\ CallEnded) =>
        /\ pc' = "b_loop"
        /\ mi' = mi + 1
        /\ IF NonEmptyResult
           THEN /\ Len(successful_models') = Len(successful_models) + 1
                /\ SubSeq(successful_models', 1, Len(successful_models)) = successful_models
                /\ LET e == successful_models'[Len(successful_models')]
                   IN  /\ e.edit_id = models[mi].edit_id
                       /\ e.code = models[mi].code
                       /\ e.files = ret.files
                       /\ e.files_count = Len(ret.files)
                /\ failed_models' = failed_models
           ELSE /\ Len(failed_models') = Len(failed_models) + 1
                /\ SubSeq(failed_models', 1, Len(failed_models)) = failed_models
                /\ LET e == failed_models'[Len(failed_models')]
                   IN  /\ e.edit_id = models[mi].edit_id
                       /\ e.code = models[mi].code
                /\ successful_models' = successful_models

\* the models gone past are split between the two lists
ListsAddUp ==
    (driver = "process_multiple_models" /\ pc \in { "b_loop", "b_done" }) =>
        /\ Len(successful_models) + Len(failed_models) = mi - 1
        /\ \A k \in 1..Len(successful_models) :
              successful_models[k].files_count >= 1
        /\ (pc = "b_done" => Len(successful_models) + Len(failed_models) = Len(models))

\* C25: after process_multiple_models every model of the list is in exactly
\* one of the two lists: in successful_models, with files_count the size of
\* the result, exactly when rename_files returned a non-empty result, and in
\* failed_models otherwise (empty result, missing source directory,
\* exception); the two lengths add up to the length of models_config, and an
\* empty result does not stop the batch.
C25_ExactlyOneList ==
    /\ [] ListsAddUp
    /\ [][RecordedInOneList]_vars

C25_Witness ==
    /\ pc = "b_done"
    /\ driver = "process_multiple_models"
    /\ Len(models) = 2
    /\ outcomes = << "list", "list" >>
    /\ Len(failed_models) = 1
    /\ failed_models[1].reason = "No files found or processed"
    /\ Len(successful_models) = 1
    /\ successful_models[1].files_count = 1
    /\ successful_models[1].edit_id = models[2].edit_id

\* ------------------------------------------------------------------------
\* C26
\* ------------------------------------------------------------------------
\* the source files of model m that this run moved: accepted, listed, gone
Moved(m) ==
    { f \in Range(json_files) :
        /\ Accepted(f, models[m].edit_id, models[m].code)
        /\ f \notin src[m] }

\* C26: within one run of rename_files two distinct accepted source files are
\* never written to the same name in dest_dir: the names of the result set
\* are pairwise distinct, dest_dir has gained as many files as the result set
\* is long, and the content of every moved source file is in dest_dir.
C26_NoDestinationCollision ==
    (Returned /\ ~ AnyError(mi)) =>
        /\ \A i, j \in 1..Len(ret.files) : i # j => ret.files[i] # ret.files[j]
        /\ Cardinality(TreeFiles(dst[mi])) = Len(ret.files)
        /\ \A f \in Moved(mi) : CopiedFrom(mi, f)

\* ------------------------------------------------------------------------
\* C27
\* ------------------------------------------------------------------------
\* C27: when rename_files returns, its result set lists exactly the files
\* this run wrote into dest_dir: the new name of every file whose copy
\* succeeded is listed, and every listed name exists in dest_dir, also when
\* deleting the original failed after the copy.
C27_ResultListsWrites ==
    Returned =>
        /\ \A f \in Range(json_files) :
              CopiedFrom(mi, f)
                  => NewNameOf(f, Cur.edit_id, Cur.code) \in Range(ret.files)
        /\ \A n \in Range(ret.files) : n \in Names(dst[mi])

\* ------------------------------------------------------------------------
\* C28
\* ------------------------------------------------------------------------
\* the folder name of a descriptor with its two tokens replaced by tokens
\* that hold no descriptive text; the grammar g and its middle stay
Neutral(d, g) ==
    FillFrom(Grammars(IsGbdf(base_dir))[g], d.folder_name, 1, 1,
             << d.ts_number_raw, << "a" >>, << "b" >> >>)

\* C28: the collection name and the collection file name of a descriptor
\* depend on the descriptive middle of its grammar only, not on what the
\* edit_id and code tokens contain: they are the names the same folder would
\* get with other tokens, and a REVENUE folder has the generic
\* ts_<n>_collection name and the revenue_wgs_csbd_ file prefix.
C28_CategoryFromMiddleOnly ==
    \A k \in 1..Len(discovered) :
        \A g \in 1..Len(Grammars(IsGbdf(base_dir))) :
            FirstGrammar(discovered[k].folder_name, g) =>
                LET d == discovered[k]
                    names == PostmanNames(Neutral(d, g), d.ts_number, d.edit_id, d.code)
                IN  /\ d.postman_collection_name = names.collection
                    /\ d.postman_file_name = names.file
                    /\ (g = 1 =>
                          /\ d.postman_collection_name = generate_postman_collection_name(d.ts_number)
                          /\ d.postman_file_name = WgsCsbdFile(<< "revenue" >>, d.edit_id, d.code))

\* ------------------------------------------------------------------------
\* C23
\* ------------------------------------------------------------------------
\* generate_postman_collection has returned
GenReturned == pc = "g_returned"

\* the files under the walked directory whose name ends with .json and has,
\* without it, exactly five pieces between '#'
FiveSegmentFiles(dir) ==
    { e \in TreeFiles(dir) :
        /\ EndsWith(Basename(e.name), JSON)
        /\ Len(Split(PathStem(e.name), HASH)) = 5 }

\* the requests are those of the five-segment files, one each, named by the
\* file name without extension, all with method POST
OneRequestPerFile(item, dir) ==
    /\ Len(item) = Cardinality(FiveSegmentFiles(dir))
    /\ \A e \in FiveSegmentFiles(dir) : \E k \in 1..Len(item) :
          /\ item[k].name = SubSeq(Basename(e.name), 1, Len(Basename(e.name)) - 1)
          /\ item[k].body = JsonContent(e)
    /\ \A k \in 1..Len(item) :
          /\ item[k].method = "POST"
          /\ \E e \in FiveSegmentFiles(dir) : PathStem(e.name) = item[k].name

\* C23: generate_postman_collection makes one request for each .json file
\* under its source directory whose name has exactly five '#'-separated
\* segments and for no other file, named by the file name without extension
\* and with method POST whatever the suffix; when no file gives a request,
\* no collection file is written and None is returned.
C23_OneRequestPerFiveSegmentFile ==
    (GenReturned /\ driver = "generator") =>
        /\ postman.kind \in { "path", "None" }
        /\ (postman.kind = "path" =>
              /\ postman.file = "written"
              /\ OneRequestPerFile(postman.item, dst[mi]))
        /\ (FiveSegmentFiles(dst[mi]) = { } =>
              /\ postman.kind = "None"
              /\ postman.file = "absent")

C23_Witness ==
    /\ GenReturned
    /\ driver = "generator"
    /\ postman.kind = "path"
    /\ Cardinality(dst[mi]) = 2
    /\ Len(postman.item) = 1
    /\ postman.item[1].name = << "TC", HASH, "01_11111", HASH, "rvn011", HASH, "00W11", HASH, "x" >>
    /\ postman.item[1].method = "POST"
    /\ \E e \in dst[mi] : Len(Split(PathStem(e.name), HASH)) = 4

\* a directory without a five-segment file: None and no collection file
C23_NoneWitness ==
    /\ GenReturned
    /\ driver = "generator"
    /\ postman.kind = "None"
    /\ postman.file = "absent"
    /\ dst[mi] # { }
    /\ \E e \in dst[mi] : EndsWith(e.name, JSON)
    /\ FiveSegmentFiles(dst[mi]) = { }

\* ------------------------------------------------------------------------
\* C24
\* ------------------------------------------------------------------------
Validated == pc = "v_done"

\* the document has every required key of the shape
HasAll(required) == \A i \in 1..Len(required) : required[i] \in collection.keys

\* the shape validate_collection decides for: extended when both of its
\* keys are there, minimal otherwise
ExtendedShape == HasAll(RequiredExtended)

\* the errors name missing fields of the given shape only
ErrorsOnlyOf(required) ==
    \A k \in 1..Len(validation_result.errors) :
        \E i \in 1..Len(required) :
            /\ validation_result.errors[k] = MissingField(required[i])
            /\ required[i] \notin collection.keys

\* the number of requests of a document of complete shape
RequestCount == IF ExtendedShape THEN collection.item ELSE collection.items

Warns == \E k \in 1..Len(validation_result.warnings) : validation_result.warnings[k] = NO_REQUESTS

\* C24: validate_collection decides the shape of the document and checks
\* the required fields of that shape only: the document is valid exactly
\* when it has all keys of the extended shape (info, item) or all keys of
\* the minimal shape (version, name, type, items), no error names a field
\* of the other shape, and a document without requests is valid and carries
\* the warning "Collection contains no requests".
C24_ShapeThenFields ==
    (Validated /\ collection.kind = "dict") =>
        /\ validation_result.valid <=> (HasAll(RequiredExtended) \/ HasAll(RequiredMinimal))
        /\ (ExtendedShape => ErrorsOnlyOf(RequiredExtended))
        /\ (~ ExtendedShape => ErrorsOnlyOf(RequiredMinimal))
        /\ ((HasAll(RequiredExtended) \/ HasAll(RequiredMinimal)) /\ RequestCount = 0
               => validation_result.valid /\ Warns)

C24_Witness ==
    /\ Validated
    /\ collection.kind = "dict"
    /\ collection.keys = { "info", "item", "version", "name", "type", "items" }
    /\ collection.item = 0
    /\ collection.items = 2
    /\ validation_result.valid
    /\ validation_result.errors = << >>
    /\ Warns
    /\ validation_result.stats = << << "total_requests", 0 >> >>

\* ------------------------------------------------------------------------
\* C29
\* ------------------------------------------------------------------------
\* rename_files returned and its generator call wrote a collection
CollectionWritten == Returned /\ postman.kind = "path" /\ postman.file = "written"

\* the names of the requests of the collection
RequestNames == { postman.item[k].name : k \in 1..Len(postman.item) }

\* the names of the result set, without extension
ResultStems == { PathStem(ret.files[k]) : k \in 1..Len(ret.files) }

\* the statement as given: the requests are those of this run's result set
C29_EntriesAreResultSet ==
    CollectionWritten => RequestNames = ResultStems

\* C29 (amended): the collection rename_files generates after a run has one
\* request for every five-segment .json file that is in dest_dir or in a
\* subdirectory of it when the generator runs, and no other request: for the
\* files this run wrote there under a five-segment name, and also for such
\* files that were there before the run; a name of the result set is the
\* name of a request exactly when a file of the tree carries it.
C29_EntriesAreDestDirFiles ==
    CollectionWritten =>
        /\ OneRequestPerFile(postman.item, dst[mi])
        /\ \A n \in ResultStems :
              n \in RequestNames <=>
                  \E e \in FiveSegmentFiles(dst[mi]) : PathStem(e.name) = n

C29_Witness ==
    /\ CollectionWritten
    /\ ~ AnyError(mi)
    /\ Len(ret.files) = 1
    /\ Len(postman.item) = 2
    /\ \E e \in dst[mi] :
          /\ e.from = OLD
          /\ Basename(e.name) # e.name
          /\ e.name \notin Range(ret.files)
          /\ PathStem(e.name) \in RequestNames

\* ------------------------------------------------------------------------
\* C30
\* ------------------------------------------------------------------------
\* the Postman block of rename_files is running
InPostmanBlock == pc \in { "g_init", "g_entry", "g_returned", "g_raised" }

\* the block is entered only under "generate_postman and renamed_files"
AttemptedOnlyWhenWanted ==
    (InPostmanBlock \/ postman.kind # "none") =>
        generate_postman /\ renamed_files # << >>

\* no step of the block touches a directory or the result, and the block
\* ends in the return of the whole result, never in an exception; a kill
\* of the process is no failure of the generation: it ends the run where it
\* is and leaves the directories and the result as they are
BlockKeepsOutcome ==
    InPostmanBlock =>
        /\ src' = src
        /\ dst' = dst
        /\ renamed_files' = renamed_files
        /\ log' = log
        /\ pc' \in { "g_entry", "g_returned", "g_raised", "rf_returned", "crashed" }
        /\ (pc' = "rf_returned" => ret' = [kind |-> "list", files |-> renamed_files])

\* C30: rename_files attempts the generation only when generate_postman is
\* true and the result set is not empty, and a failure of it (an exception,
\* or None from the generator) changes nothing of the rename outcome: the
\* moved files stay in dest_dir, the originals stay deleted, and
\* rename_files returns the whole result set without raising.
C30_GenerationFailureContained ==
    /\ [] AttemptedOnlyWhenWanted
    /\ [][BlockKeepsOutcome]_vars

C30_Witness ==
    /\ Returned
    /\ postman.kind = "raise"
    /\ generate_postman
    /\ Len(ret.files) = 1
    /\ src[mi] = { }
    /\ \E e \in dst[mi] : e.name = ret.files[1] /\ e.from \in Range(json_files)

\* the generator returned None and the result is returned all the same
C30_NoneWitness ==
    /\ Returned
    /\ postman.kind = "None"
    /\ Len(ret.files) = 2
    /\ src[mi] = { }

====
